---- MODULE Spec2Model ----
(***************************************************************************)
(* Shortcut collection store of the navigator (ShortcutsContext.tsx).      *)
(*                                                                         *)
(* A string is a sequence of one-character strings.  A value that is       *)
(* "T | null" or "T | undefined" in the source is a set holding at most    *)
(* one T (the empty set is null / undefined).                              *)
(*                                                                         *)
(* Specification Spec runs the operations one after the other: every       *)
(* settings write is committed and the provider re-rendered before the     *)
(* next operation starts, so the rendered snapshot (collections,           *)
(* activeCollectionId) is the committed settings state.                    *)
(***************************************************************************)
EXTENDS Integers, Sequences, FiniteSets, TLC

VARIABLES shortcutCollections, activeShortcutCollection, last, steps,
          vault, vaultChangeVersion, hydratedShortcuts,
          allFiles, heap, tagTree, untagged, hiddenRootTags, filteredTree, noteCountCache,
          tagInHand, settingsWrites, normalizationFingerprintsRef, effectRanFor,
          callStack, callResult

\* the shortcut store with its hydration, and the tag tree with its count cache
storeVars == <<shortcutCollections, activeShortcutCollection, vault, vaultChangeVersion, hydratedShortcuts>>
treeVars == <<allFiles, heap, tagTree, untagged, hiddenRootTags, filteredTree, noteCountCache, tagInHand>>

vars == <<shortcutCollections, activeShortcutCollection, last, steps,
          vault, vaultChangeVersion, hydratedShortcuts,
          allFiles, heap, tagTree, untagged, hiddenRootTags, filteredTree, noteCountCache,
          tagInHand, settingsWrites, normalizationFingerprintsRef, effectRanFor,
          callStack, callResult>>

\* the fingerprint cache of the normalization effect and the snapshot the
\* effect last ran for
passVars == <<normalizationFingerprintsRef, effectRanFor>>

\* the frames of a tree walk that is under way and what it has gathered
walkVars == <<callStack, callResult>>

\* no walk has returned anything
NoResult == [op |-> "none", node |-> {}, matcher |-> {}, files |-> {}, paths |-> {}, kept |-> {},
             roots |-> <<>>, count |-> 0]

(***************************************************************************)
(* Bounds of the model                                                     *)
(***************************************************************************)
\* most operations in one run
MaxSteps == 3

(***************************************************************************)
(* Strings                                                                 *)
(***************************************************************************)
LowerChar(c) ==
    CASE c = "A" -> "a"
      [] c = "B" -> "b"
      [] c = "S" -> "s"
      [] c = "Q" -> "q"
      [] OTHER -> c

toLowerCase(s) == [i \in 1..Len(s) |-> LowerChar(s[i])]

RECURSIVE StripLeft(_, _)
StripLeft(s, ch) ==
    IF s # <<>> /\ Head(s) = ch THEN StripLeft(Tail(s), ch) ELSE s

RECURSIVE StripRight(_, _)
StripRight(s, ch) ==
    IF s # <<>> /\ s[Len(s)] = ch THEN StripRight(SubSeq(s, 1, Len(s) - 1), ch) ELSE s

trim(s) == StripRight(StripLeft(s, " "), " ")

\* utils/tagUtils normalizeTagPath: null for an empty result
normalizeTagPath(tagPath) ==
    LET withoutPrefix == IF tagPath # <<>> /\ Head(tagPath) = "#" THEN Tail(tagPath) ELSE tagPath
        normalized == toLowerCase(StripRight(StripLeft(withoutPrefix, "/"), "/"))
    IN  IF normalized = <<>> THEN {} ELSE {normalized}

(***************************************************************************)
(* Shortcut entries                                                        *)
(***************************************************************************)
FOLDER == "folder"
NOTE == "note"
TAG == "tag"
SEARCH == "search"

FolderEntry(p) == [type |-> FOLDER, path |-> p, tagPath |-> <<>>, name |-> <<>>, query |-> <<>>, provider |-> ""]
NoteEntry(p) == [type |-> NOTE, path |-> p, tagPath |-> <<>>, name |-> <<>>, query |-> <<>>, provider |-> ""]
TagEntry(t) == [type |-> TAG, path |-> <<>>, tagPath |-> t, name |-> <<>>, query |-> <<>>, provider |-> ""]
SearchEntry(n, q, pr) == [type |-> SEARCH, path |-> <<>>, tagPath |-> <<>>, name |-> n, query |-> q, provider |-> pr]

isFolderShortcut(s) == s.type = FOLDER
isNoteShortcut(s) == s.type = NOTE
isTagShortcut(s) == s.type = TAG
isSearchShortcut(s) == s.type = SEARCH

\* types/shortcuts getShortcutKey: type plus the discriminating fields
getShortcutKey(s) ==
    IF isFolderShortcut(s) \/ isNoteShortcut(s) THEN <<s.type, s.path>>
    ELSE IF isTagShortcut(s) THEN <<s.type, s.tagPath>>
    ELSE <<s.type, s.name, s.query, s.provider>>

(***************************************************************************)
(* Sequence helpers (Array.prototype.find / findIndex / filter / splice)   *)
(***************************************************************************)
Range(seq) == {seq[i] : i \in 1..Len(seq)}

\* findIndex: the first position whose collection has the id, 0 when none (-1 in the source)
findIndex(cs, id) ==
    IF \E i \in 1..Len(cs) : cs[i].id = id
    THEN CHOOSE i \in 1..Len(cs) : cs[i].id = id /\ \A j \in 1..(i - 1) : cs[j].id # id
    ELSE 0

\* find: the first collection with the id, as an option
find(cs, id) == IF findIndex(cs, id) = 0 THEN {} ELSE {cs[findIndex(cs, id)]}

\* splice(start, 0, e), start counted from 0: a negative start counts from the
\* end, and the start is kept within 0..length
Splice(seq, start, e) ==
    LET at == IF start < 0 THEN (IF Len(seq) + start < 0 THEN 0 ELSE Len(seq) + start)
              ELSE IF start > Len(seq) THEN Len(seq) ELSE start
    IN  SubSeq(seq, 1, at) \o <<e>> \o SubSeq(seq, at + 1, Len(seq))

Max(a, b) == IF a > b THEN a ELSE b
Min(a, b) == IF a < b THEN a ELSE b

(***************************************************************************)
(* Rendered snapshot and the lookup maps derived from it                   *)
(***************************************************************************)
collections == shortcutCollections
activeCollectionId == activeShortcutCollection

\* collections.find(c => c.id === activeCollectionId) || collections[0]
activeCollection ==
    IF find(collections, activeCollectionId) # {} THEN find(collections, activeCollectionId)
    ELSE IF Len(collections) > 0 THEN {collections[1]}
    ELSE {}

collectionShortcuts ==
    IF activeCollection = {} THEN <<>> ELSE (CHOOSE c \in activeCollection : TRUE).shortcuts

\* key set of shortcutMap
shortcutMapKeys == {getShortcutKey(s) : s \in Range(collectionShortcuts)}

\* shortcutMap.get(key) for a key of the map
shortcutMapGet(key) == CHOOSE s \in Range(collectionShortcuts) : getShortcutKey(s) = key

\* key sets of the per-type maps of the active collection
folderShortcutKeysByPath == {s.path : s \in {e \in Range(collectionShortcuts) : isFolderShortcut(e)}}
noteShortcutKeysByPath == {s.path : s \in {e \in Range(collectionShortcuts) : isNoteShortcut(e)}}
tagShortcutKeysByPath == UNION {normalizeTagPath(s.tagPath) : s \in {e \in Range(collectionShortcuts) : isTagShortcut(e)}}
searchShortcutsByName == {toLowerCase(s.name) : s \in {e \in Range(collectionShortcuts) : isSearchShortcut(e)}}

\* does entry s carry this path string (folder / note path, normalized tag path)
MatchesPath(s, path) ==
    IF isFolderShortcut(s) \/ isNoteShortcut(s) THEN s.path = path
    ELSE IF isTagShortcut(s) THEN normalizeTagPath(s.tagPath) = {path}
    ELSE FALSE

\* key of the first entry of the collection that carries the path, null when none
getShortcutInCollection(path, collectionId) ==
    IF find(collections, collectionId) = {} THEN {}
    ELSE LET shortcuts == (CHOOSE c \in find(collections, collectionId) : TRUE).shortcuts
         IN  IF \E i \in 1..Len(shortcuts) : MatchesPath(shortcuts[i], path)
             THEN {getShortcutKey(shortcuts[CHOOSE i \in 1..Len(shortcuts) :
                       MatchesPath(shortcuts[i], path) /\ \A j \in 1..(i - 1) : ~MatchesPath(shortcuts[j], path)])}
             ELSE {}

(***************************************************************************)
(* Inputs                                                                  *)
(***************************************************************************)
\* the id of the default collection
DefaultId == <<"default">>
\* an id no collection ever has
NoSuchId == <<"missing">>

PathInputs == {<<"a">>}
TagInputs == {<<"#", "A">>, <<"a">>, <<"#">>}
\* name, query and provider handed to addSearchShortcut
SearchInputs ==
    {[name |-> <<"S", " ">>, query |-> <<"q">>, provider |-> "internal"],
     [name |-> <<" ">>, query |-> <<"q">>, provider |-> "internal"],
     [name |-> <<"s">>, query |-> <<" ">>, provider |-> "internal"]}
IndexInputs == {{}, {-1}, {1}}
CollectionIdInputs == {c.id : c \in Range(shortcutCollections)} \cup {NoSuchId}
OptionInputs == [index : IndexInputs, collectionId : {{}} \cup {{id} : id \in CollectionIdInputs}]

\* entries a caller may hand to addShortcutsBatch
EntryInputs ==
    {FolderEntry(<<"a">>), NoteEntry(<<"a">>), TagEntry(<<"#", "A">>), TagEntry(<<"#">>),
     SearchEntry(<<"S", " ">>, <<"q">>, "internal")}
BatchInputs ==
    {<<>>} \cup {<<e>> : e \in EntryInputs}
    \cup {<<FolderEntry(<<"a">>), e>> : e \in EntryInputs \ {TagEntry(<<"#">>)}}

\* entries that the add operations can store
StoredEntries ==
    {FolderEntry(p) : p \in PathInputs} \cup {NoteEntry(p) : p \in PathInputs}
    \cup {TagEntry(n) : n \in UNION {normalizeTagPath(t) : t \in TagInputs}}
    \cup {SearchEntry(trim(i.name), trim(i.query), i.provider) :
               i \in {j \in SearchInputs : trim(j.name) # <<>> /\ trim(j.query) # <<>>}}
KeyInputs == {getShortcutKey(e) : e \in StoredEntries}
OrderedKeysInputs ==
    {<<>>} \cup {<<k>> : k \in KeyInputs} \cup {<<k1, k2>> : k1 \in KeyInputs, k2 \in KeyInputs}
OrderedIdsInputs ==
    {<<>>} \cup {<<i>> : i \in CollectionIdInputs} \cup {<<i1, i2>> : i1 \in CollectionIdInputs, i2 \in CollectionIdInputs}
\* the fields of a collection an update may carry: nothing that the store reads
\* (a new name or icon only), or a value for isDefault
UpdatesInputs == [isDefault : {{}, {TRUE}, {FALSE}}]

(***************************************************************************)
(* Hydration: the vault is a map from path to what lives there ("folder",  *)
(* "file" or "none"); the root folder "/" is always there.                 *)
(***************************************************************************)
VaultPaths == {<<"a">>, <<"b">>}
RootPath == <<"/">>

\* app.vault.getAbstractFileByPath(path) in vault v: null when nothing is there
getAbstractFileByPath(v, path) ==
    IF path \in DOMAIN v /\ v[path] # "none" THEN {[path |-> path, kind |-> v[path]]} ELSE {}

getRoot == {[path |-> RootPath, kind |-> "folder"]}

isFolder(file) == \E f \in file : f.kind = "folder"
isFile(file) == \E f \in file : f.kind = "file"

\* hydrateShortcut taking any file or folder at the path as the target
hydrateShortcutWithAnyTarget(shortcut, v) ==
    LET target == IF isFolderShortcut(shortcut) /\ shortcut.path = RootPath THEN getRoot
                  ELSE getAbstractFileByPath(v, shortcut.path)
    IN  [key |-> getShortcutKey(shortcut), shortcut |-> shortcut,
         folder |-> IF isFolderShortcut(shortcut) THEN target ELSE {},
         note |-> IF isNoteShortcut(shortcut) THEN target ELSE {},
         search |-> IF isSearchShortcut(shortcut) THEN {shortcut} ELSE {},
         tagPath |-> IF isTagShortcut(shortcut) THEN {shortcut.tagPath} ELSE {},
         isMissing |-> (isFolderShortcut(shortcut) \/ isNoteShortcut(shortcut)) /\ target = {}]

\* one element of the hydrated list, resolved against vault v
hydrateShortcut(shortcut, v) ==
    LET key == getShortcutKey(shortcut)
        base == [key |-> key, shortcut |-> shortcut, folder |-> {}, note |-> {}, search |-> {},
                 tagPath |-> {}, isMissing |-> FALSE]
    IN  IF isFolderShortcut(shortcut)
        THEN LET target == IF shortcut.path = RootPath THEN getRoot ELSE getAbstractFileByPath(v, shortcut.path)
             IN  IF isFolder(target) THEN [base EXCEPT !.folder = target]
                 ELSE [base EXCEPT !.isMissing = TRUE]
        ELSE IF isNoteShortcut(shortcut)
        THEN LET target == getAbstractFileByPath(v, shortcut.path)
             IN  IF isFile(target) THEN [base EXCEPT !.note = target]
                 ELSE [base EXCEPT !.isMissing = TRUE]
        ELSE IF isTagShortcut(shortcut)
        THEN LET normalizedTagPath == normalizeTagPath(shortcut.tagPath)
             IN  [base EXCEPT !.tagPath = IF normalizedTagPath # {} THEN normalizedTagPath ELSE {shortcut.tagPath},
                              !.isMissing = (normalizedTagPath = {})]
        ELSE [base EXCEPT !.search = {shortcut}]

\* collectionShortcuts.map(...) for a shortcut list and a vault
hydrate(shortcuts, v) == [i \in 1..Len(shortcuts) |-> hydrateShortcut(shortcuts[i], v)]

\* the shortcut list rendered for stored collections cs and active id
shortcutsShownFor(cs, active) ==
    IF findIndex(cs, active) # 0 THEN cs[findIndex(cs, active)].shortcuts
    ELSE IF Len(cs) > 0 THEN cs[1].shortcuts
    ELSE <<>>

(***************************************************************************)
(* insertShortcut: the settings update, applied to the committed state cur *)
(***************************************************************************)
\* insertAt with the lower clamp Math.max(0, ...) left out
insertAtWithoutLowerClamp(index, length) ==
    IF index # {} THEN Min(CHOOSE i \in index : TRUE, length) ELSE length

\* insertion position: clamped index, or the end
insertAt(index, length) ==
    IF index # {} THEN Max(0, Min(CHOOSE i \in index : TRUE, length)) ELSE length

insertShortcut(cur, shortcut, index, collectionId) ==
    LET targetCollectionId == IF collectionId # {} THEN CHOOSE id \in collectionId : TRUE ELSE activeCollectionId
        collectionIndex == findIndex(cur, targetCollectionId)
    IN  IF collectionIndex = 0
        THEN [collections |-> cur, didInsert |-> FALSE]
        ELSE LET existing == cur[collectionIndex].shortcuts
                 next == Splice(existing, insertAt(index, Len(existing)), shortcut)
             IN  [collections |-> [cur EXCEPT ![collectionIndex].shortcuts = next],
                  didInsert |-> TRUE]

(***************************************************************************)
(* Operations.  Each one is the whole handler: the checks against the      *)
(* rendered snapshot, the settings update and the returned value.          *)
(***************************************************************************)
\* positions of the collection list whose shortcut list differs between two
\* stored states (recorded with the last operation, read by no operation)
ChangedLists(before, after) ==
    {i \in 1..Min(Len(before), Len(after)) : before[i].shortcuts # after[i].shortcuts}

\* the settings write cs / active is committed and the operation returns: ok is
\* the returned boolean, count the number returned by addShortcutsBatch
Commit(cs, active, op, ok, count) ==
    /\ steps' = steps + 1
    /\ shortcutCollections' = cs
    /\ activeShortcutCollection' = active
    /\ last' = [op |-> op, ok |-> ok, count |-> count, changed |-> ChangedLists(shortcutCollections, cs)]
    /\ hydratedShortcuts' = hydrate(shortcutsShownFor(cs, active), vault)
    /\ UNCHANGED <<vault, vaultChangeVersion>>
    /\ UNCHANGED <<treeVars, walkVars>>
    /\ UNCHANGED <<settingsWrites, passVars>>

Reject(op) == Commit(shortcutCollections, activeShortcutCollection, op, FALSE, 0)

\* collectionId || activeCollectionId
TargetOf(options) ==
    IF options.collectionId # {} THEN CHOOSE id \in options.collectionId : TRUE ELSE activeCollectionId

addFolderShortcut(path, options) ==
    /\ steps < MaxSteps
    /\ LET targetCollectionId == TargetOf(options)
           existingKey == getShortcutInCollection(path, targetCollectionId)
       IN  IF existingKey # {}
           THEN Reject("addFolderShortcut")
           ELSE LET r == insertShortcut(shortcutCollections, FolderEntry(path), options.index, {targetCollectionId})
                IN  Commit(r.collections, activeShortcutCollection, "addFolderShortcut", r.didInsert, 0)

addNoteShortcut(path, options) ==
    /\ steps < MaxSteps
    /\ LET targetCollectionId == TargetOf(options)
           existingKey == getShortcutInCollection(path, targetCollectionId)
       IN  IF existingKey # {}
           THEN Reject("addNoteShortcut")
           ELSE LET r == insertShortcut(shortcutCollections, NoteEntry(path), options.index, {targetCollectionId})
                IN  Commit(r.collections, activeShortcutCollection, "addNoteShortcut", r.didInsert, 0)

\* addTagShortcut checking and storing the tag path as it was handed in
addTagShortcutWithRawPath(tagPath, options) ==
    /\ steps < MaxSteps
    /\ LET targetCollectionId == TargetOf(options)
           existingKey == getShortcutInCollection(tagPath, targetCollectionId)
       IN  IF normalizeTagPath(tagPath) = {} \/ existingKey # {}
           THEN Reject("addTagShortcut")
           ELSE LET r == insertShortcut(shortcutCollections, TagEntry(tagPath), options.index, {targetCollectionId})
                IN  Commit(r.collections, activeShortcutCollection, "addTagShortcut", r.didInsert, 0)

addTagShortcut(tagPath, options) ==
    /\ steps < MaxSteps
    /\ LET normalizedPath == normalizeTagPath(tagPath)
       IN  IF normalizedPath = {}
           THEN Reject("addTagShortcut")
           ELSE LET np == CHOOSE n \in normalizedPath : TRUE
                    targetCollectionId == TargetOf(options)
                    existingKey == getShortcutInCollection(np, targetCollectionId)
                IN  IF existingKey # {}
                    THEN Reject("addTagShortcut")
                    ELSE LET r == insertShortcut(shortcutCollections, TagEntry(np), options.index, {targetCollectionId})
                         IN  Commit(r.collections, activeShortcutCollection, "addTagShortcut", r.didInsert, 0)

addSearchShortcut(name, query, provider, options) ==
    /\ steps < MaxSteps
    /\ LET normalizedQuery == trim(query)
           normalizedName == trim(name)
           nameKey == toLowerCase(normalizedName)
       IN  IF normalizedQuery = <<>> THEN Reject("addSearchShortcut")
           ELSE IF normalizedName = <<>> THEN Reject("addSearchShortcut")
           ELSE IF nameKey \in searchShortcutsByName THEN Reject("addSearchShortcut")
           ELSE LET r == insertShortcut(shortcutCollections, SearchEntry(normalizedName, normalizedQuery, provider),
                                        options.index, options.collectionId)
                IN  Commit(r.collections, activeShortcutCollection, "addSearchShortcut", r.didInsert, 0)

\* first pass of addShortcutsBatch: validate, normalize and dedupe the batch
\* against the lookup maps of the active collection and the batch itself
RECURSIVE validateBatch(_, _, _, _, _, _)
validateBatch(entries, folderPaths, notePaths, tagPaths, searchNames, normalizedEntries) ==
    IF entries = <<>> THEN normalizedEntries
    ELSE LET entry == Head(entries)
             rest == Tail(entries)
             skip == validateBatch(rest, folderPaths, notePaths, tagPaths, searchNames, normalizedEntries)
         IN  IF entry.type = FOLDER
             THEN IF entry.path \in folderPaths THEN skip
                  ELSE validateBatch(rest, folderPaths \cup {entry.path}, notePaths, tagPaths, searchNames,
                                     Append(normalizedEntries, entry))
             ELSE IF entry.type = NOTE
             THEN IF entry.path \in notePaths THEN skip
                  ELSE validateBatch(rest, folderPaths, notePaths \cup {entry.path}, tagPaths, searchNames,
                                     Append(normalizedEntries, entry))
             ELSE IF entry.type = TAG
             THEN LET normalizedPath == normalizeTagPath(entry.tagPath)
                  IN  IF normalizedPath = {} THEN skip
                      ELSE IF normalizedPath \subseteq tagPaths THEN skip
                      ELSE validateBatch(rest, folderPaths, notePaths, tagPaths \cup normalizedPath, searchNames,
                                         Append(normalizedEntries,
                                                [entry EXCEPT !.tagPath = CHOOSE n \in normalizedPath : TRUE]))
             ELSE IF entry.type = SEARCH
             THEN LET normalizedName == trim(entry.name)
                      normalizedQuery == trim(entry.query)
                      lookupKey == toLowerCase(normalizedName)
                  IN  IF normalizedName = <<>> THEN skip
                      ELSE IF normalizedQuery = <<>> THEN skip
                      ELSE IF lookupKey \in searchNames THEN skip
                      ELSE validateBatch(rest, folderPaths, notePaths, tagPaths, searchNames \cup {lookupKey},
                                         Append(normalizedEntries,
                                                [entry EXCEPT !.name = normalizedName, !.query = normalizedQuery]))
             ELSE skip

\* the duplicate check of the insertion loop, made against the rendered snapshot
existsInTarget(entry, targetCollectionId) ==
    IF entry.type = FOLDER \/ entry.type = NOTE THEN getShortcutInCollection(entry.path, targetCollectionId) # {}
    ELSE IF entry.type = TAG THEN getShortcutInCollection(entry.tagPath, targetCollectionId) # {}
    ELSE /\ find(collections, targetCollectionId) # {}
         /\ \E s \in Range((CHOOSE c \in find(collections, targetCollectionId) : TRUE).shortcuts) :
                isSearchShortcut(s) /\ toLowerCase(s.name) = toLowerCase(entry.name)

\* second pass of addShortcutsBatch: one settings update per surviving entry
RECURSIVE insertBatch(_, _, _, _, _)
insertBatch(normalizedEntries, cur, insertIndex, targetCollectionId, successCount) ==
    IF normalizedEntries = <<>> THEN [collections |-> cur, successCount |-> successCount]
    ELSE LET entry == Head(normalizedEntries)
         IN  IF existsInTarget(entry, targetCollectionId)
             THEN insertBatch(Tail(normalizedEntries), cur, insertIndex, targetCollectionId, successCount)
             ELSE insertBatch(Tail(normalizedEntries),
                              insertShortcut(cur, entry, insertIndex, {targetCollectionId}).collections,
                              {i + 1 : i \in insertIndex}, targetCollectionId, successCount + 1)

addShortcutsBatch(entries, options) ==
    /\ steps < MaxSteps
    /\ IF entries = <<>> THEN Reject("addShortcutsBatch")
       ELSE LET normalizedEntries == validateBatch(entries, folderShortcutKeysByPath, noteShortcutKeysByPath,
                                                   tagShortcutKeysByPath, searchShortcutsByName, <<>>)
            IN  IF normalizedEntries = <<>> THEN Reject("addShortcutsBatch")
                ELSE LET r == insertBatch(normalizedEntries, shortcutCollections, options.index, TargetOf(options), 0)
                     IN  Commit(r.collections, activeShortcutCollection, "addShortcutsBatch",
                                r.successCount > 0, r.successCount)

\* filter(entry => getShortcutKey(entry) !== key)
RECURSIVE filterKey(_, _)
filterKey(shortcuts, key) ==
    IF shortcuts = <<>> THEN <<>>
    ELSE IF getShortcutKey(Head(shortcuts)) # key THEN <<Head(shortcuts)>> \o filterKey(Tail(shortcuts), key)
    ELSE filterKey(Tail(shortcuts), key)

\* removeFromCollections filtering the active collection only
removeFromActiveCollectionOnly(cur, key) ==
    [i \in 1..Len(cur) |->
        IF i = findIndex(cur, activeCollectionId) THEN [cur[i] EXCEPT !.shortcuts = filterKey(@, key)]
        ELSE cur[i]]

\* the settings update of removeShortcut
removeFromCollections(cur, key) ==
    [i \in 1..Len(cur) |-> [cur[i] EXCEPT !.shortcuts = filterKey(@, key)]]

removeShortcut(key) ==
    /\ steps < MaxSteps
    /\ IF key \notin shortcutMapKeys
       THEN Reject("removeShortcut")
       ELSE Commit(removeFromCollections(shortcutCollections, key),
                   activeShortcutCollection, "removeShortcut", TRUE, 0)

\* orderedKeys.map(key => shortcutMap.get(key)), every key being in the map
orderedEntries(orderedKeys) == [i \in 1..Len(orderedKeys) |-> shortcutMapGet(orderedKeys[i])]

reorderShortcuts(orderedKeys) ==
    /\ steps < MaxSteps
    /\ IF Len(orderedKeys) # Len(collectionShortcuts) THEN Reject("reorderShortcuts")
       ELSE IF \E i \in 1..Len(orderedKeys) : orderedKeys[i] \notin shortcutMapKeys THEN Reject("reorderShortcuts")
       ELSE LET collectionIndex == findIndex(shortcutCollections, activeCollectionId)
            IN  Commit(IF collectionIndex # 0
                       THEN [shortcutCollections EXCEPT ![collectionIndex].shortcuts = orderedEntries(orderedKeys)]
                       ELSE shortcutCollections,
                       activeShortcutCollection, "reorderShortcuts", TRUE, 0)

setActiveCollection(collectionId) ==
    /\ steps < MaxSteps
    /\ Commit(shortcutCollections, collectionId, "setActiveCollection", TRUE, 0)

\* the id addCollection generates (collection_<time>_<random>): an id that
\* nothing in the stored state refers to
newCollectionId ==
    LET used == {c.id : c \in Range(shortcutCollections)} \cup {activeShortcutCollection}
    IN  <<"collection", CHOOSE n \in 1..(Cardinality(used) + 1) :
              /\ <<"collection", n>> \notin used
              /\ \A m \in 1..(n - 1) : <<"collection", m>> \in used>>

addCollection ==
    /\ steps < MaxSteps
    /\ Commit(Append(shortcutCollections, [id |-> newCollectionId, isDefault |-> FALSE, shortcuts |-> <<>>]),
              activeShortcutCollection, "addCollection", TRUE, 0)

\* { ...collections[index], ...updates }
mergeUpdates(collection, updates) ==
    IF updates.isDefault = {} THEN collection
    ELSE [collection EXCEPT !.isDefault = CHOOSE b \in updates.isDefault : TRUE]

updateCollection(collectionId, updates) ==
    /\ steps < MaxSteps
    /\ LET index == findIndex(shortcutCollections, collectionId)
       IN  Commit(IF index # 0
                  THEN [shortcutCollections EXCEPT ![index] = mergeUpdates(@, updates)]
                  ELSE shortcutCollections,
                  activeShortcutCollection, "updateCollection", TRUE, 0)

\* filter(c => c.id !== collectionId)
RECURSIVE filterId(_, _)
filterId(cs, collectionId) ==
    IF cs = <<>> THEN <<>>
    ELSE IF Head(cs).id # collectionId THEN <<Head(cs)>> \o filterId(Tail(cs), collectionId)
    ELSE filterId(Tail(cs), collectionId)

\* collections.find(c => c.isDefault)?.id || 'default'
defaultCollectionId(cs) ==
    IF \E i \in 1..Len(cs) : cs[i].isDefault
    THEN cs[CHOOSE i \in 1..Len(cs) : cs[i].isDefault /\ \A j \in 1..(i - 1) : ~cs[j].isDefault].id
    ELSE DefaultId

\* isDefaultCollection looking at the active collection instead of the named one
isDefaultActiveCollection(collectionId) == \E c \in activeCollection : c.isDefault

\* collections.find(c => c.id === collectionId)?.isDefault
isDefaultCollection(collectionId) == \E c \in find(collections, collectionId) : c.isDefault

deleteCollection(collectionId) ==
    /\ steps < MaxSteps
    /\ IF isDefaultCollection(collectionId)
       THEN Reject("deleteCollection")
       ELSE Commit(filterId(shortcutCollections, collectionId),
                   IF activeShortcutCollection = collectionId
                   THEN defaultCollectionId(shortcutCollections)
                   ELSE activeShortcutCollection,
                   "deleteCollection", TRUE, 0)

reorderCollections(orderedCollectionIds) ==
    /\ steps < MaxSteps
    /\ IF Len(orderedCollectionIds) # Len(collections) THEN Reject("reorderCollections")
       ELSE IF \E i \in 1..Len(orderedCollectionIds) : find(collections, orderedCollectionIds[i]) = {}
       THEN Reject("reorderCollections")
       ELSE Commit([i \in 1..Len(orderedCollectionIds) |->
                       CHOOSE c \in find(collections, orderedCollectionIds[i]) : TRUE],
                   activeShortcutCollection, "reorderCollections", TRUE, 0)

(***************************************************************************)
(* Vault notifications.  The listeners exist while the active collection   *)
(* holds a folder or note shortcut; a notification for a tracked path      *)
(* bumps vaultChangeVersion, and the hydrated list is recomputed when the  *)
(* version has changed.                                                    *)
(***************************************************************************)
isTracked(path) == path \in folderShortcutKeysByPath \/ path \in noteShortcutKeysByPath

\* the vault became v and a listener ran with this tracked verdict
Notified(v, tracked, op) ==
    LET listening == folderShortcutKeysByPath # {} \/ noteShortcutKeysByPath # {}
        version == IF listening /\ tracked THEN vaultChangeVersion + 1 ELSE vaultChangeVersion
    IN  /\ steps' = steps + 1
        /\ vault' = v
        /\ vaultChangeVersion' = version
        /\ hydratedShortcuts' = IF version # vaultChangeVersion THEN hydrate(collectionShortcuts, v)
                                ELSE hydratedShortcuts
        /\ last' = [op |-> op, ok |-> TRUE, count |-> 0, changed |-> {}]
        /\ UNCHANGED <<shortcutCollections, activeShortcutCollection>>
        /\ UNCHANGED <<treeVars, walkVars>>
        /\ UNCHANGED <<settingsWrites, passVars>>

handleCreate(path, kind) ==
    /\ steps < MaxSteps
    /\ vault[path] = "none"
    /\ Notified([vault EXCEPT ![path] = kind], isTracked(path), "handleCreate")

handleDelete(path) ==
    /\ steps < MaxSteps
    /\ vault[path] # "none"
    /\ Notified([vault EXCEPT ![path] = "none"], isTracked(path), "handleDelete")

\* handleRename looking up the new path only
handleRenameLookingAtNewPathOnly(path, oldPath) ==
    /\ steps < MaxSteps
    /\ path # oldPath
    /\ vault[oldPath] # "none"
    /\ vault[path] = "none"
    /\ Notified([vault EXCEPT ![path] = vault[oldPath], ![oldPath] = "none"], isTracked(path), "handleRename")

handleRename(path, oldPath) ==
    /\ steps < MaxSteps
    /\ path # oldPath
    /\ vault[oldPath] # "none"
    /\ vault[path] = "none"
    /\ Notified([vault EXCEPT ![path] = vault[oldPath], ![oldPath] = "none"],
                isTracked(oldPath) \/ isTracked(path), "handleRename")

(***************************************************************************)
(* Tag tree utilities.  A node lives in the heap under an id; a map of     *)
(* nodes (the root map, a children map) is the sequence of the ids of its  *)
(* values in insertion order, each keyed by the path of its node.          *)
(***************************************************************************)
startsWith(s, prefix) == Len(s) >= Len(prefix) /\ SubSeq(s, 1, Len(prefix)) = prefix
endsWith(s, suffix) == Len(s) >= Len(suffix) /\ SubSeq(s, Len(s) - Len(suffix) + 1, Len(s)) = suffix

\* s.split('/')
RECURSIVE split(_)
split(s) ==
    IF \A i \in 1..Len(s) : s[i] # "/" THEN <<s>>
    ELSE LET i == CHOOSE k \in 1..Len(s) : s[k] = "/" /\ \A j \in 1..(k - 1) : s[j] # "/"
         IN  <<SubSeq(s, 1, i - 1)>> \o split(SubSeq(s, i + 1, Len(s)))

\* parts.join('/')
RECURSIVE join(_)
join(parts) ==
    IF parts = <<>> THEN <<>>
    ELSE IF Len(parts) = 1 THEN parts[1]
    ELSE parts[1] \o <<"/">> \o join(Tail(parts))

\* (tag.startsWith('#') ? tag.substring(1) : tag).replace(/^\/+|\/+$/g, '')
canonicalOf(tag) ==
    StripRight(StripLeft(IF startsWith(tag, <<"#">>) THEN Tail(tag) ELSE tag, "/"), "/")

\* normalizeTagPathValue keeping doubled boundary slashes but for one: the
\* replace without the '+' of the pattern
normalizeTagPathValueOneSlash(tag) ==
    LET withoutPrefix == IF startsWith(tag, <<"#">>) THEN Tail(tag) ELSE tag
        withoutLeading == IF startsWith(withoutPrefix, <<"/">>) THEN Tail(withoutPrefix) ELSE withoutPrefix
        withoutTrailing == IF endsWith(withoutLeading, <<"/">>)
                           THEN SubSeq(withoutLeading, 1, Len(withoutLeading) - 1) ELSE withoutLeading
    IN  toLowerCase(withoutTrailing)

\* utils/tagPrefixMatcher normalizeTagPathValue: the lowercase path without
\* the '#' prefix and the boundary slashes, '' when nothing is left
normalizeTagPathValue(tag) == toLowerCase(canonicalOf(tag))

\* utils/fileFilters isPathInExcludedFolder: the path lies below one of the folders
isPathInExcludedFolder(path, patterns) ==
    \E i \in 1..Len(patterns) : startsWith(path, patterns[i] \o <<"/">>)

\* position of the node with this path in a sequence of nodes, 0 when none
indexOfPath(nodeSeq, path) ==
    IF \E i \in 1..Len(nodeSeq) : nodeSeq[i].path = path
    THEN CHOOSE i \in 1..Len(nodeSeq) : nodeSeq[i].path = path
    ELSE 0

\* records the root of a tag of a file in an excluded folder
recordHiddenRootTag(hidden, tagValue, filePath) ==
    LET canonical == canonicalOf(tagValue)
        rootCanonical == Head(split(canonical))
        normalizedRoot == normalizeTagPathValue(rootCanonical)
        at == indexOfPath(hidden, normalizedRoot)
    IN  IF canonical = <<>> THEN hidden
        ELSE IF rootCanonical = <<>> THEN hidden
        ELSE IF normalizedRoot = <<>> THEN hidden
        ELSE IF at # 0 THEN [hidden EXCEPT ![at].notesWithTag = @ \cup {filePath}]
        ELSE Append(hidden, [name |-> rootCanonical, path |-> normalizedRoot, displayPath |-> rootCanonical,
                             children |-> <<>>, notesWithTag |-> {filePath}])

RECURSIVE recordHiddenRootTags(_, _, _)
recordHiddenRootTags(hidden, tags, filePath) ==
    IF tags = <<>> THEN hidden
    ELSE recordHiddenRootTags(recordHiddenRootTag(hidden, Head(tags), filePath), Tail(tags), filePath)

MAX_FILES_TO_PROCESS == 100000
MAX_TAGS_PER_FILE == 1000

\* processTag keeping the casing of every occurrence instead of the first-seen one
processTagInItsOwnCasing(st, tag, path) ==
    LET canonicalPath == canonicalOf(tag)
        normalizedPath == normalizeTagPathValue(tag)
    IN  IF canonicalPath = <<>> \/ normalizedPath = <<>> THEN st
        ELSE LET seen == \E i \in 1..Len(st.allTagsSet) : st.allTagsSet[i] = canonicalPath
             IN  [st EXCEPT
                    !.caseMap = (normalizedPath :> canonicalPath) @@ @,
                    !.allTagsSet = IF seen THEN @ ELSE Append(@, canonicalPath),
                    !.tagFiles = IF canonicalPath \in DOMAIN @
                                 THEN [@ EXCEPT ![canonicalPath] = @ \cup {path}]
                                 ELSE @ @@ (canonicalPath :> {path})]

\* one tag of a processed file: canonical form, first-seen casing, file association
processTag(st, tag, path) ==
    LET canonicalPath == canonicalOf(tag)
        normalizedPath == normalizeTagPathValue(tag)
    IN  IF canonicalPath = <<>> \/ normalizedPath = <<>> THEN st
        ELSE LET known == normalizedPath \in DOMAIN st.caseMap
                 storedCanonical == IF known THEN st.caseMap[normalizedPath] ELSE canonicalPath
                 seen == \E i \in 1..Len(st.allTagsSet) : st.allTagsSet[i] = storedCanonical
             IN  [st EXCEPT
                    !.caseMap = IF known THEN @ ELSE @ @@ (normalizedPath :> storedCanonical),
                    !.allTagsSet = IF seen THEN @ ELSE Append(@, storedCanonical),
                    !.tagFiles = IF storedCanonical \in DOMAIN @
                                 THEN [@ EXCEPT ![storedCanonical] = @ \cup {path}]
                                 ELSE @ @@ (storedCanonical :> {path})]

RECURSIVE processTags(_, _, _)
processTags(st, tags, path) ==
    IF tags = <<>> THEN st ELSE processTags(processTag(st, Head(tags), path), Tail(tags), path)

\* countsAsUntagged counting a file whose tags are not extracted yet as well
countsAsUntaggedAlsoWhenNull(fileTags, path) == endsWith(path, <<".", "m", "d">>)

\* a file without tags counts as untagged: tags !== null && path.endsWith('.md')
countsAsUntagged(fileTags, path) == fileTags # {} /\ endsWith(path, <<".", "m", "d">>)

\* first pass of buildTagTreeFromDatabase over the files that are left
RECURSIVE collectTags(_, _, _, _)
collectTags(st, files, excludedFolderPatterns, includedPaths) ==
    IF files = <<>> THEN st
    ELSE LET path == Head(files).path
             fileTags == Head(files).tags
             counted == [st EXCEPT !.filesProcessed = @ + 1]
             hasExcludedFolders == \E ps \in excludedFolderPatterns : Len(ps) > 0
             isExcluded == \E ps \in excludedFolderPatterns : Len(ps) > 0 /\ isPathInExcludedFolder(path, ps)
             skip == collectTags(counted, Tail(files), excludedFolderPatterns, includedPaths)
         IN  IF counted.filesProcessed > MAX_FILES_TO_PROCESS THEN counted
             ELSE IF \E inc \in includedPaths : path \notin inc THEN skip
             ELSE IF isExcluded
             THEN IF ~hasExcludedFolders \/ fileTags = {} \/ fileTags = {<<>>} THEN skip
                  ELSE collectTags([counted EXCEPT !.hiddenRootTags =
                                       recordHiddenRootTags(@, CHOOSE t \in fileTags : TRUE, path)],
                                   Tail(files), excludedFolderPatterns, includedPaths)
             ELSE IF fileTags = {} \/ fileTags = {<<>>}
             THEN collectTags([counted EXCEPT !.untaggedCount =
                                  IF countsAsUntagged(fileTags, path) THEN @ + 1 ELSE @],
                              Tail(files), excludedFolderPatterns, includedPaths)
             ELSE LET tags == CHOOSE t \in fileTags : TRUE
                  IN  IF Len(tags) > MAX_TAGS_PER_FILE THEN skip
                      ELSE collectTags(processTags(counted, tags, path),
                                       Tail(files), excludedFolderPatterns, includedPaths)

\* the state the first pass starts from
emptyIndex ==
    [allTagsSet |-> <<>>, caseMap |-> <<>>, tagFiles |-> <<>>, hiddenRootTags |-> <<>>,
     untaggedCount |-> 0, filesProcessed |-> 0]

\* utils/sortUtils naturalCompare on tag paths, which differ in their lowercase
\* forms: character by character, a prefix before its extensions
CharRank(c) ==
    CASE c = "/" -> 1
      [] c = "#" -> 2
      [] c = "a" -> 3
      [] c = "b" -> 4
      [] OTHER -> 5

RECURSIVE lessThan(_, _)
lessThan(x, y) ==
    IF y = <<>> THEN FALSE
    ELSE IF x = <<>> THEN TRUE
    ELSE IF CharRank(Head(x)) # CharRank(Head(y)) THEN CharRank(Head(x)) < CharRank(Head(y))
    ELSE lessThan(Tail(x), Tail(y))

naturalCompare(x, y) ==
    IF lessThan(toLowerCase(x), toLowerCase(y)) THEN -1
    ELSE IF lessThan(toLowerCase(y), toLowerCase(x)) THEN 1
    ELSE 0

\* tagPaths.sort((a, b) => naturalCompare(a, b)): a stable sort
RECURSIVE insertSorted(_, _)
insertSorted(sorted, x) ==
    IF sorted = <<>> THEN <<x>>
    ELSE IF naturalCompare(x, Head(sorted)) < 0 THEN <<x>> \o sorted
    ELSE <<Head(sorted)>> \o insertSorted(Tail(sorted), x)

RECURSIVE sort(_)
sort(tagPaths) ==
    IF tagPaths = <<>> THEN <<>>
    ELSE insertSorted(sort(SubSeq(tagPaths, 1, Len(tagPaths) - 1)), tagPaths[Len(tagPaths)])

MAX_TAGS == 100000
\* MAX_DEPTH of getTotalNoteCount: 50 in the source, scaled down so that the
\* tag paths of the model reach beyond it
MAX_DEPTH_getTotalNoteCount == 2
\* MAX_DEPTH of buildTreeFromList, most segments of a tag the assembler takes:
\* 100 in the source, twice the depth cap of the count
MAX_DEPTH == 2 * MAX_DEPTH_getTotalNoteCount

\* filesAttachedAt handing the file set of the whole tag to every step of its walk
filesOfTagAtEveryStep(tagFiles, tagPath, currentPath, i, length) ==
    IF tagPath \in DOMAIN tagFiles THEN {tagFiles[tagPath]} ELSE {}

\* the file set a step of the walk attaches to its node: that of the exact tag
\* at the last step, nothing (undefined) before
filesAttachedAt(tagFiles, tagPath, currentPath, i, length) ==
    IF i = length /\ currentPath \in DOMAIN tagFiles THEN {tagFiles[currentPath]} ELSE {}

\* steps i..length of the walk over the parts of one tag path (i counted from 1)
RECURSIVE walkParts(_, _, _, _, _, _)
walkParts(st, parts, i, previousPath, tagPath, tagFiles) ==
    IF i > Len(parts) THEN st
    ELSE LET part == parts[i]
             currentPath == IF i = 1 THEN part ELSE previousPath \o <<"/">> \o part
             normalizedCurrentPath == normalizeTagPathValue(currentPath)
         IN  IF normalizedCurrentPath = <<>>
             THEN walkParts(st, parts, i + 1, currentPath, tagPath, tagFiles)
             ELSE LET isNew == normalizedCurrentPath \notin DOMAIN st.allNodes
                      created == [name |-> part, path |-> normalizedCurrentPath, displayPath |-> currentPath,
                                  children |-> <<>>, notesWithTag |-> {}]
                      st1 == IF isNew
                             THEN [allNodes |-> st.allNodes @@ (normalizedCurrentPath :> created),
                                   tree |-> IF i = 1 THEN Append(st.tree, normalizedCurrentPath) ELSE st.tree]
                             ELSE st
                      files == filesAttachedAt(tagFiles, tagPath, currentPath, i, Len(parts))
                      st2 == IF files # {}
                             THEN [st1 EXCEPT !.allNodes[normalizedCurrentPath].notesWithTag = CHOOSE f \in files : TRUE]
                             ELSE st1
                      parentPath == normalizeTagPathValue(join(SubSeq(parts, 1, i - 1)))
                      st3 == IF /\ i > 1
                                /\ parentPath \in DOMAIN st2.allNodes
                                /\ \A k \in 1..Len(st2.allNodes[parentPath].children) :
                                      st2.allNodes[parentPath].children[k] # normalizedCurrentPath
                             THEN [st2 EXCEPT !.allNodes[parentPath].children = Append(@, normalizedCurrentPath)]
                             ELSE st2
                  IN  walkParts(st3, parts, i + 1, currentPath, tagPath, tagFiles)

RECURSIVE walkTags(_, _, _)
walkTags(st, tagPaths, tagFiles) ==
    IF tagPaths = <<>> THEN st
    ELSE LET parts == split(Head(tagPaths))
         IN  IF Len(parts) > MAX_DEPTH THEN walkTags(st, Tail(tagPaths), tagFiles)
             ELSE walkTags(walkParts(st, parts, 1, <<>>, Head(tagPaths), tagFiles), Tail(tagPaths), tagFiles)

\* allNodes maps a normalized path to its node, the children of a node and
\* the root map tree being sequences of such paths
buildTreeFromList(tagPaths, tagFiles) ==
    IF Len(tagPaths) > MAX_TAGS THEN [allNodes |-> <<>>, tree |-> <<>>]
    ELSE walkTags([allNodes |-> <<>>, tree |-> <<>>], sort(tagPaths), tagFiles)

\* the result of a tree operation is recorded and the step counted
Returned(op, count) ==
    /\ steps' = steps + 1
    /\ last' = [op |-> op, ok |-> TRUE, count |-> count, changed |-> {}]
    /\ UNCHANGED storeVars
    /\ UNCHANGED <<settingsWrites, passVars, walkVars>>

\* the id of the node that the build makes for a normalized path
builtId(path) == <<"tagTree", path>>

\* withoutVisibleRoots leaving the registry as the first pass made it
withVisibleRoots(hidden, tree) == hidden

\* the hidden roots that are no key of the assembled root map
withoutVisibleRoots(hidden, tree) ==
    SelectSeq(hidden, LAMBDA n : \A k \in 1..Len(tree) : tree[k] # n.path)

\* buildTagTreeFromDatabase without the call of clearNoteCountCache
buildTagTreeFromDatabaseKeepingCache(excludedFolderPatterns, includedPaths) ==
    /\ steps < MaxSteps
    /\ LET index == collectTags(emptyIndex, allFiles, excludedFolderPatterns, includedPaths)
           built == buildTreeFromList(index.allTagsSet, index.tagFiles)
       IN  /\ heap' = [id \in {builtId(q) : q \in DOMAIN built.allNodes} |->
                          [built.allNodes[id[2]] EXCEPT
                              !.children = [k \in 1..Len(@) |-> builtId(@[k])]]]
           /\ tagTree' = [k \in 1..Len(built.tree) |-> builtId(built.tree[k])]
           /\ untagged' = index.untaggedCount
           /\ hiddenRootTags' = withoutVisibleRoots(index.hiddenRootTags, built.tree)
           /\ filteredTree' = {}
           /\ noteCountCache' = noteCountCache
           /\ UNCHANGED <<allFiles, tagInHand>>
           /\ Returned("buildTagTreeFromDatabase", index.untaggedCount)

buildTagTreeFromDatabase(excludedFolderPatterns, includedPaths) ==
    /\ steps < MaxSteps
    /\ LET index == collectTags(emptyIndex, allFiles, excludedFolderPatterns, includedPaths)
           built == buildTreeFromList(index.allTagsSet, index.tagFiles)
       IN  /\ heap' = [id \in {builtId(q) : q \in DOMAIN built.allNodes} |->
                          [built.allNodes[id[2]] EXCEPT
                              !.children = [k \in 1..Len(@) |-> builtId(@[k])]]]
           /\ tagTree' = [k \in 1..Len(built.tree) |-> builtId(built.tree[k])]
           /\ untagged' = index.untaggedCount
           /\ hiddenRootTags' = withoutVisibleRoots(index.hiddenRootTags, built.tree)
           /\ filteredTree' = {}
           /\ noteCountCache' = <<>>
           /\ UNCHANGED <<allFiles, tagInHand>>
           /\ Returned("buildTagTreeFromDatabase", index.untaggedCount)


\* collectFromChildren(n) with the visited set and the depth it runs under: the
\* files gathered so far, grown by those of the descendants it reaches
RECURSIVE collectFromChildren(_, _, _, _, _)
RECURSIVE collectFromEach(_, _, _, _, _)
collectFromChildren(h, n, visited, depth, collected) ==
    IF h[n].path \in visited \/ depth >= MAX_DEPTH_getTotalNoteCount THEN collected
    ELSE collectFromEach(h, h[n].children, visited \cup {h[n].path}, depth + 1, collected)

collectFromEach(h, children, visited, depth, collected) ==
    IF children = <<>> THEN collected
    ELSE collectFromEach(h, Tail(children), visited, depth,
                         collectFromChildren(h, Head(children), visited, depth,
                                             collected \cup h[Head(children)].notesWithTag))

\* totalNoteCount adding up the sizes of the file sets instead of uniting them
RECURSIVE sumFromChildren(_, _, _, _)
RECURSIVE sumFromEach(_, _, _, _)
sumFromChildren(h, n, visited, depth) ==
    IF h[n].path \in visited \/ depth >= MAX_DEPTH_getTotalNoteCount THEN 0
    ELSE sumFromEach(h, h[n].children, visited \cup {h[n].path}, depth + 1)

sumFromEach(h, children, visited, depth) ==
    IF children = <<>> THEN 0
    ELSE Cardinality(h[Head(children)].notesWithTag)
         + sumFromChildren(h, Head(children), visited, depth)
         + sumFromEach(h, Tail(children), visited, depth)

totalNoteCountAsSum(h, node) == Cardinality(h[node].notesWithTag) + sumFromChildren(h, node, {}, 0)

\* the count getTotalNoteCount computes on a cache miss
totalNoteCount(h, node) == Cardinality(collectFromChildren(h, node, {}, 0, h[node].notesWithTag))

getTotalNoteCount(node) ==
    /\ steps < MaxSteps
    /\ LET count == IF node \in DOMAIN noteCountCache THEN noteCountCache[node]
                    ELSE totalNoteCount(heap, node)
       IN  /\ noteCountCache' = IF node \in DOMAIN noteCountCache THEN noteCountCache
                                ELSE noteCountCache @@ (node :> count)
           /\ UNCHANGED <<allFiles, heap, tagTree, untagged, hiddenRootTags, filteredTree, tagInHand>>
           /\ Returned("getTotalNoteCount", count)

\* tagPrefixMatcher matchesHiddenTagPattern: the path is a configured prefix
\* or lies below one, or the bare name starts or ends with a configured name
matchesHiddenTagPattern(path, name, matcher) ==
    \/ \E i \in 1..Len(matcher.prefixes) :
          path = matcher.prefixes[i] \/ startsWith(path, matcher.prefixes[i] \o <<"/">>)
    \/ \E i \in 1..Len(matcher.startsWithNames) : startsWith(toLowerCase(name), matcher.startsWithNames[i])
    \/ \E i \in 1..Len(matcher.endsWithNames) : endsWith(toLowerCase(name), matcher.endsWithNames[i])

\* MAX_DEPTH of excludeFromTagTree: 50 in the source, scaled down
MAX_DEPTH_excludeFromTagTree == 2

\* the id of the copy that the filter makes of the node with this path
filteredId(path) == <<"filtered", path>>

\* shouldIncludeNode keeping only the nodes that hold notes themselves
RECURSIVE shouldIncludeNodeNeedingOwnNotes(_, _, _, _, _, _)
RECURSIVE filterChildrenNeedingOwnNotes(_, _, _, _, _, _)
shouldIncludeNodeNeedingOwnNotes(h, node, matcher, visited, depth, made) ==
    IF h[node].path \in visited THEN [node |-> {}, made |-> made]
    ELSE IF depth >= MAX_DEPTH_excludeFromTagTree THEN [node |-> {}, made |-> made]
    ELSE IF matchesHiddenTagPattern(h[node].path, h[node].name, matcher) THEN [node |-> {}, made |-> made]
    ELSE LET r == filterChildrenNeedingOwnNotes(h, h[node].children, matcher, visited \cup {h[node].path},
                                                depth + 1, [children |-> <<>>, made |-> made])
         IN  IF Cardinality(h[node].notesWithTag) = 0
             THEN [node |-> {}, made |-> r.made]
             ELSE [node |-> {filteredId(h[node].path)},
                   made |-> r.made @@ (filteredId(h[node].path) :> [h[node] EXCEPT !.children = r.children])]

filterChildrenNeedingOwnNotes(h, children, matcher, visited, depth, acc) ==
    IF children = <<>> THEN acc
    ELSE LET r == shouldIncludeNodeNeedingOwnNotes(h, Head(children), matcher, visited, depth, acc.made)
         IN  filterChildrenNeedingOwnNotes(h, Tail(children), matcher, visited, depth,
                 [children |-> acc.children \o (IF r.node = {} THEN <<>> ELSE <<CHOOSE id \in r.node : TRUE>>),
                  made |-> r.made])

\* shouldIncludeNode keeping a node that has neither notes nor surviving children
RECURSIVE shouldIncludeNodeWithoutPruning(_, _, _, _, _, _)
RECURSIVE filterChildrenWithoutPruning(_, _, _, _, _, _)
shouldIncludeNodeWithoutPruning(h, node, matcher, visited, depth, made) ==
    IF h[node].path \in visited THEN [node |-> {}, made |-> made]
    ELSE IF depth >= MAX_DEPTH_excludeFromTagTree THEN [node |-> {}, made |-> made]
    ELSE IF matchesHiddenTagPattern(h[node].path, h[node].name, matcher) THEN [node |-> {}, made |-> made]
    ELSE LET r == filterChildrenWithoutPruning(h, h[node].children, matcher, visited \cup {h[node].path},
                                               depth + 1, [children |-> <<>>, made |-> made])
         IN  [node |-> {filteredId(h[node].path)},
              made |-> r.made @@ (filteredId(h[node].path) :> [h[node] EXCEPT !.children = r.children])]

filterChildrenWithoutPruning(h, children, matcher, visited, depth, acc) ==
    IF children = <<>> THEN acc
    ELSE LET r == shouldIncludeNodeWithoutPruning(h, Head(children), matcher, visited, depth, acc.made)
         IN  filterChildrenWithoutPruning(h, Tail(children), matcher, visited, depth,
                 [children |-> acc.children \o (IF r.node = {} THEN <<>> ELSE <<CHOOSE id \in r.node : TRUE>>),
                  made |-> r.made])

\* shouldIncludeNode descending into a node that matches a rule and dropping it
\* only when none of its children survives
RECURSIVE shouldIncludeNodeKeptByChildren(_, _, _, _, _, _)
RECURSIVE filterChildrenKeptByChildren(_, _, _, _, _, _)
shouldIncludeNodeKeptByChildren(h, node, matcher, visited, depth, made) ==
    IF h[node].path \in visited THEN [node |-> {}, made |-> made]
    ELSE IF depth >= MAX_DEPTH_excludeFromTagTree THEN [node |-> {}, made |-> made]
    ELSE LET r == filterChildrenKeptByChildren(h, h[node].children, matcher, visited \cup {h[node].path},
                                               depth + 1, [children |-> <<>>, made |-> made])
         IN  IF /\ Len(r.children) = 0
                /\ \/ Cardinality(h[node].notesWithTag) = 0
                   \/ matchesHiddenTagPattern(h[node].path, h[node].name, matcher)
             THEN [node |-> {}, made |-> r.made]
             ELSE [node |-> {filteredId(h[node].path)},
                   made |-> r.made @@ (filteredId(h[node].path) :> [h[node] EXCEPT !.children = r.children])]

filterChildrenKeptByChildren(h, children, matcher, visited, depth, acc) ==
    IF children = <<>> THEN acc
    ELSE LET r == shouldIncludeNodeKeptByChildren(h, Head(children), matcher, visited, depth, acc.made)
         IN  filterChildrenKeptByChildren(h, Tail(children), matcher, visited, depth,
                 [children |-> acc.children \o (IF r.node = {} THEN <<>> ELSE <<CHOOSE id \in r.node : TRUE>>),
                  made |-> r.made])

\* shouldIncludeNode pruning by the children the node had before the filter
\* instead of by those that survive it
RECURSIVE shouldIncludeNodePruningByOwnChildren(_, _, _, _, _, _)
RECURSIVE filterChildrenPruningByOwnChildren(_, _, _, _, _, _)
shouldIncludeNodePruningByOwnChildren(h, node, matcher, visited, depth, made) ==
    IF h[node].path \in visited THEN [node |-> {}, made |-> made]
    ELSE IF depth >= MAX_DEPTH_excludeFromTagTree THEN [node |-> {}, made |-> made]
    ELSE IF matchesHiddenTagPattern(h[node].path, h[node].name, matcher) THEN [node |-> {}, made |-> made]
    ELSE LET r == filterChildrenPruningByOwnChildren(h, h[node].children, matcher, visited \cup {h[node].path},
                                                     depth + 1, [children |-> <<>>, made |-> made])
         IN  IF Len(h[node].children) = 0 /\ Cardinality(h[node].notesWithTag) = 0
             THEN [node |-> {}, made |-> r.made]
             ELSE [node |-> {filteredId(h[node].path)},
                   made |-> r.made @@ (filteredId(h[node].path) :> [h[node] EXCEPT !.children = r.children])]

filterChildrenPruningByOwnChildren(h, children, matcher, visited, depth, acc) ==
    IF children = <<>> THEN acc
    ELSE LET r == shouldIncludeNodePruningByOwnChildren(h, Head(children), matcher, visited, depth, acc.made)
         IN  filterChildrenPruningByOwnChildren(h, Tail(children), matcher, visited, depth,
                 [children |-> acc.children \o (IF r.node = {} THEN <<>> ELSE <<CHOOSE id \in r.node : TRUE>>),
                  made |-> r.made])

\* shouldIncludeNode(node) with the visited set and the depth it runs under: the
\* id of the filtered copy, or null, and the nodes made so far
RECURSIVE shouldIncludeNode(_, _, _, _, _, _)
RECURSIVE filterChildren(_, _, _, _, _, _)
shouldIncludeNode(h, node, matcher, visited, depth, made) ==
    IF h[node].path \in visited THEN [node |-> {}, made |-> made]
    ELSE IF depth >= MAX_DEPTH_excludeFromTagTree THEN [node |-> {}, made |-> made]
    ELSE IF matchesHiddenTagPattern(h[node].path, h[node].name, matcher) THEN [node |-> {}, made |-> made]
    ELSE LET r == filterChildren(h, h[node].children, matcher, visited \cup {h[node].path}, depth + 1,
                                 [children |-> <<>>, made |-> made])
         IN  IF Len(r.children) = 0 /\ Cardinality(h[node].notesWithTag) = 0
             THEN [node |-> {}, made |-> r.made]
             ELSE [node |-> {filteredId(h[node].path)},
                   made |-> r.made @@ (filteredId(h[node].path) :> [h[node] EXCEPT !.children = r.children])]

\* the loop over a children map (or the root map): the surviving copies in order
filterChildren(h, children, matcher, visited, depth, acc) ==
    IF children = <<>> THEN acc
    ELSE LET r == shouldIncludeNode(h, Head(children), matcher, visited, depth, acc.made)
         IN  filterChildren(h, Tail(children), matcher, visited, depth,
                 [children |-> acc.children \o (IF r.node = {} THEN <<>> ELSE <<CHOOSE id \in r.node : TRUE>>),
                  made |-> r.made])

\* restriction of a function to the keys in a set
Restrict(f, keys) == [k \in (DOMAIN f) \cap keys |-> f[k]]

\* ids of the nodes that the last build made
BuiltIds == {id \in DOMAIN heap : id[1] = "tagTree"}

\* excludeFromTagTree removing the excluded children from the children maps of
\* the input nodes and the excluded roots from the input root map
excludeFromTagTreeInPlace(matcher) ==
    /\ steps < MaxSteps
    /\ LET r == filterChildren(heap, tagTree, matcher, {}, 0, [children |-> <<>>, made |-> <<>>])
           kept(n) == filteredId(heap[n].path) \in DOMAIN r.made
       IN  /\ heap' = [n \in BuiltIds |->
                         IF kept(n)
                         THEN [heap[n] EXCEPT !.children =
                                  [k \in 1..Len(r.made[filteredId(heap[n].path)].children) |->
                                      builtId(r.made[filteredId(heap[n].path)].children[k][2])]]
                         ELSE heap[n]]
           /\ tagTree' = [k \in 1..Len(r.children) |-> builtId(r.children[k][2])]
           /\ filteredTree' = {tagTree'}
    /\ noteCountCache' = Restrict(noteCountCache, BuiltIds)
    /\ UNCHANGED <<allFiles, untagged, hiddenRootTags, tagInHand>>
    /\ Returned("excludeFromTagTree", 0)

excludeFromTagTree(matcher) ==
    /\ steps < MaxSteps
    /\ IF Len(matcher.prefixes) = 0 /\ Len(matcher.startsWithNames) = 0 /\ Len(matcher.endsWithNames) = 0
       THEN /\ filteredTree' = {tagTree}
            /\ heap' = Restrict(heap, BuiltIds)
       ELSE LET r == filterChildren(heap, tagTree, matcher, {}, 0, [children |-> <<>>, made |-> <<>>])
            IN  /\ filteredTree' = {r.children}
                /\ heap' = Restrict(heap, BuiltIds) @@ r.made
    /\ noteCountCache' = Restrict(noteCountCache, BuiltIds)
    /\ UNCHANGED <<allFiles, tagTree, untagged, hiddenRootTags, tagInHand>>
    /\ Returned("excludeFromTagTree", 0)

\* the tag string in hand is replaced by its normalized form
normalizeTagValue ==
    /\ steps < MaxSteps
    /\ tagInHand' = normalizeTagPathValue(tagInHand)
    /\ UNCHANGED <<allFiles, heap, tagTree, untagged, hiddenRootTags, filteredTree, noteCountCache>>
    /\ Returned("normalizeTagPathValue", Len(tagInHand'))

\* no file index read and no tree built yet
NoTree ==
    /\ allFiles = <<>>
    /\ heap = <<>>
    /\ tagTree = <<>>
    /\ untagged = 0
    /\ hiddenRootTags = <<>>
    /\ filteredTree = {}
    /\ noteCountCache = <<>>
    /\ tagInHand = <<>>
    /\ settingsWrites = <<>>
    /\ normalizationFingerprintsRef = {}
    /\ effectRanFor = {}
    /\ callStack = <<>>
    /\ callResult = NoResult

(***************************************************************************)
(* Specification                                                           *)
(***************************************************************************)
\* the stored settings a session starts from: the default collection as the
\* legacy migration creates it, followed by a collection created in an earlier
\* session that holds one folder shortcut, either of them being the active one
Init ==
    /\ shortcutCollections =
          <<[id |-> DefaultId, isDefault |-> TRUE, shortcuts |-> <<>>],
            [id |-> <<"collection", 1>>, isDefault |-> FALSE, shortcuts |-> <<FolderEntry(<<"a">>)>>]>>
    /\ activeShortcutCollection \in {c.id : c \in Range(shortcutCollections)}
    /\ last = [op |-> "init", ok |-> TRUE, count |-> 0, changed |-> {}]
    /\ steps = 0
    /\ vault = [p \in VaultPaths |-> IF p = <<"a">> THEN "folder" ELSE "none"]
    /\ vaultChangeVersion = 0
    /\ hydratedShortcuts = hydrate(collectionShortcuts, vault)
    /\ NoTree

Next ==
    \/ \E p \in PathInputs, o \in OptionInputs : addFolderShortcut(p, o)
    \/ \E p \in PathInputs, o \in OptionInputs : addNoteShortcut(p, o)
    \/ \E t \in TagInputs, o \in OptionInputs : addTagShortcut(t, o)
    \/ \E i \in SearchInputs, o \in OptionInputs : addSearchShortcut(i.name, i.query, i.provider, o)
    \/ \E b \in BatchInputs, o \in OptionInputs : addShortcutsBatch(b, o)
    \/ \E k \in KeyInputs : removeShortcut(k)
    \/ \E ks \in OrderedKeysInputs : reorderShortcuts(ks)
    \/ \E id \in CollectionIdInputs : setActiveCollection(id)
    \/ addCollection
    \/ \E id \in CollectionIdInputs, u \in UpdatesInputs : updateCollection(id, u)
    \/ \E id \in CollectionIdInputs : deleteCollection(id)
    \/ \E ids \in OrderedIdsInputs : reorderCollections(ids)

Spec == Init /\ [][Next]_vars

(***************************************************************************)
(* Specification of the hydration: shortcut operations on the active       *)
(* collection interleaved with vault notifications, from any vault.        *)
(***************************************************************************)
\* no index and no collection id: the entry is appended to the active collection
NoOptions == [index |-> {}, collectionId |-> {}]
HydrationPathInputs == {<<"a">>, RootPath}
HydrationKeyInputs == {<<t, p>> : t \in {FOLDER, NOTE}, p \in HydrationPathInputs} \cup {<<TAG, <<"a">>>>}

HydrationInit ==
    /\ shortcutCollections =
          <<[id |-> DefaultId, isDefault |-> TRUE, shortcuts |-> <<>>],
            [id |-> <<"collection", 1>>, isDefault |-> FALSE, shortcuts |-> <<FolderEntry(<<"a">>)>>]>>
    /\ activeShortcutCollection \in {c.id : c \in Range(shortcutCollections)}
    /\ last = [op |-> "init", ok |-> TRUE, count |-> 0, changed |-> {}]
    /\ steps = 0
    /\ vault \in [VaultPaths -> {"folder", "file", "none"}]
    /\ vaultChangeVersion = 0
    /\ hydratedShortcuts = hydrate(collectionShortcuts, vault)
    /\ NoTree

HydrationNext ==
    \/ \E p \in VaultPaths, k \in {"folder", "file"} : handleCreate(p, k)
    \/ \E p \in VaultPaths : handleDelete(p)
    \/ \E p \in VaultPaths, q \in VaultPaths : handleRename(p, q)
    \/ \E p \in HydrationPathInputs : addFolderShortcut(p, NoOptions)
    \/ \E p \in HydrationPathInputs : addNoteShortcut(p, NoOptions)
    \/ \E t \in TagInputs : addTagShortcut(t, NoOptions)
    \/ \E k \in HydrationKeyInputs : removeShortcut(k)
    \/ \E id \in CollectionIdInputs : setActiveCollection(id)

HydrationSpec == HydrationInit /\ [][HydrationNext]_vars

(***************************************************************************)
(* Specification of the interleaving: an operation runs its checks against  *)
(* the rendered snapshot and hands its mutator to updateSettings; the      *)
(* mutators handed in are applied one after the other, each to the         *)
(* settings the one before it left, and the snapshot is rendered anew      *)
(* after each of them.  Operations may be called while writes are pending. *)
(***************************************************************************)
\* a mutator handed to updateSettings, with the values its closure captured
SettingsWrite(op, kind, shortcut, index, target, key, entries, active, ordered) ==
    [op |-> op, kind |-> kind, shortcut |-> shortcut, index |-> index, target |-> target, key |-> key,
     entries |-> entries, active |-> active, ordered |-> ordered]

\* the mutator of the write w run on the current settings
applyWrite(cur, w) ==
    IF w.kind = "insertShortcut"
    THEN insertShortcut(cur, w.shortcut, w.index, {w.target})
    ELSE IF w.kind = "removeShortcut"
    THEN [collections |-> removeFromCollections(cur, w.key), didInsert |-> TRUE]
    ELSE IF w.kind = "reorderShortcuts"
    THEN LET collectionIndex == findIndex(cur, w.active)
         IN  [collections |-> IF collectionIndex # 0
                              THEN [cur EXCEPT ![collectionIndex].shortcuts = w.entries]
                              ELSE cur,
              didInsert |-> TRUE]
    ELSE [collections |-> w.ordered, didInsert |-> TRUE]

\* await updateSettings(mutator), up to the point where the mutator waits
updateSettingsCalled(w) ==
    /\ steps' = steps + 1
    /\ settingsWrites' = Append(settingsWrites, w)
    /\ last' = [op |-> "updateSettings", ok |-> TRUE, count |-> 0, changed |-> {}]
    /\ UNCHANGED <<shortcutCollections, activeShortcutCollection, hydratedShortcuts, vault, vaultChangeVersion>>
    /\ UNCHANGED <<treeVars, walkVars>>
    /\ UNCHANGED passVars

\* the oldest pending mutator runs, the operation that handed it in returns
\* and the provider renders the new settings
settingsWriteApplied ==
    /\ settingsWrites # <<>>
    /\ LET w == Head(settingsWrites)
           r == applyWrite(shortcutCollections, w)
       IN  /\ shortcutCollections' = r.collections
           /\ last' = [op |-> w.op, ok |-> r.didInsert, count |-> 0,
                       changed |-> ChangedLists(shortcutCollections, r.collections)]
           /\ hydratedShortcuts' = hydrate(shortcutsShownFor(r.collections, activeShortcutCollection), vault)
    /\ settingsWrites' = Tail(settingsWrites)
    /\ UNCHANGED <<steps, activeShortcutCollection, vault, vaultChangeVersion>>
    /\ UNCHANGED <<treeVars, walkVars>>
    /\ UNCHANGED passVars

addFolderShortcutStarted(path, options) ==
    /\ steps < MaxSteps
    /\ LET targetCollectionId == TargetOf(options)
           existingKey == getShortcutInCollection(path, targetCollectionId)
       IN  IF existingKey # {}
           THEN Reject("addFolderShortcut")
           ELSE updateSettingsCalled(SettingsWrite("addFolderShortcut", "insertShortcut", FolderEntry(path),
                                                   options.index, targetCollectionId, <<>>, <<>>, <<>>, <<>>))

removeShortcutStarted(key) ==
    /\ steps < MaxSteps
    /\ IF key \notin shortcutMapKeys
       THEN Reject("removeShortcut")
       ELSE updateSettingsCalled(SettingsWrite("removeShortcut", "removeShortcut", FolderEntry(<<>>),
                                               {}, <<>>, key, <<>>, <<>>, <<>>))

reorderShortcutsStarted(orderedKeys) ==
    /\ steps < MaxSteps
    /\ IF Len(orderedKeys) # Len(collectionShortcuts) THEN Reject("reorderShortcuts")
       ELSE IF \E i \in 1..Len(orderedKeys) : orderedKeys[i] \notin shortcutMapKeys THEN Reject("reorderShortcuts")
       ELSE updateSettingsCalled(SettingsWrite("reorderShortcuts", "reorderShortcuts", FolderEntry(<<>>),
                                               {}, <<>>, <<>>, orderedEntries(orderedKeys), activeCollectionId, <<>>))

reorderCollectionsStarted(orderedCollectionIds) ==
    /\ steps < MaxSteps
    /\ IF Len(orderedCollectionIds) # Len(collections) THEN Reject("reorderCollections")
       ELSE IF \E i \in 1..Len(orderedCollectionIds) : find(collections, orderedCollectionIds[i]) = {}
       THEN Reject("reorderCollections")
       ELSE updateSettingsCalled(SettingsWrite("reorderCollections", "reorderCollections", FolderEntry(<<>>),
                                               {}, <<>>, <<>>, <<>>, <<>>,
                                               [i \in 1..Len(orderedCollectionIds) |->
                                                   CHOOSE c \in find(collections, orderedCollectionIds[i]) : TRUE]))

\* a second folder next to the stored one, and the key lists over both
InterleavedPathInputs == {<<"a">>, <<"b">>}
InterleavedKeyInputs == {getShortcutKey(FolderEntry(p)) : p \in InterleavedPathInputs}
InterleavedOrderedKeysInputs ==
    {<<>>} \cup {<<k>> : k \in InterleavedKeyInputs} \cup {<<k, l>> : k, l \in InterleavedKeyInputs}

InterleavedNext ==
    \/ \E p \in InterleavedPathInputs, o \in OptionInputs : addFolderShortcutStarted(p, o)
    \/ \E k \in InterleavedKeyInputs : removeShortcutStarted(k)
    \/ \E ks \in InterleavedOrderedKeysInputs : reorderShortcutsStarted(ks)
    \/ \E ids \in OrderedIdsInputs : reorderCollectionsStarted(ids)
    \/ settingsWriteApplied

InterleavedSpec == Init /\ [][InterleavedNext]_vars

(***************************************************************************)
(* Specification of the normalization pass: the effect that rewrites the   *)
(* stored tag shortcuts whose path is not in normalized form.  It runs     *)
(* after every render for which the collection snapshots changed; its      *)
(* check is synchronous, its rewrite a settings write that is applied      *)
(* later, and shortcut operations may commit in between; the effect of a   *)
(* render runs before the next commit is rendered.  The fingerprint cache  *)
(* is a set of entries [id, fingerprint], at most one for an id.           *)
(***************************************************************************)
\* shortcuts.map(getShortcutFingerprint).join('|'), 'empty' for no shortcut:
\* the joined strings are kept one by one, in their order (no '|' is part of
\* a path, a name or a query of the model)
buildShortcutsFingerprint(shortcuts) ==
    LET getShortcutFingerprint(shortcut) ==
            IF isFolderShortcut(shortcut) \/ isNoteShortcut(shortcut) \/ isTagShortcut(shortcut)
            THEN <<shortcut.type, ":">> \o (IF isTagShortcut(shortcut) THEN shortcut.tagPath ELSE shortcut.path)
            ELSE <<shortcut.type, ":">> \o shortcut.name \o <<":">> \o shortcut.query \o <<":", shortcut.provider>>
    IN  IF shortcuts = <<>> THEN <<<<"e", "m", "p", "t", "y">>>>
        ELSE [i \in 1..Len(shortcuts) |-> getShortcutFingerprint(shortcuts[i])]

\* the snapshots of the rendered collections: id, shortcuts, fingerprint
collectionShortcutSnapshots ==
    [i \in 1..Len(collections) |->
        [id |-> collections[i].id, shortcuts |-> collections[i].shortcuts,
         fingerprint |-> buildShortcutsFingerprint(collections[i].shortcuts)]]

\* a tag shortcut whose stored path differs from its non-null normalization
needsRewrite(entry) ==
    /\ isTagShortcut(entry)
    /\ normalizeTagPath(entry.tagPath) # {}
    /\ normalizeTagPath(entry.tagPath) # {entry.tagPath}

\* normalizedShortcuts storing the stripped path in the casing it was stored in
normalizedShortcutsKeepingCase(shortcuts) ==
    [i \in 1..Len(shortcuts) |->
        IF needsRewrite(shortcuts[i]) THEN [shortcuts[i] EXCEPT !.tagPath = canonicalOf(@)] ELSE shortcuts[i]]

\* collection.shortcuts.map(...): the tag paths rewritten in place
normalizedShortcuts(shortcuts) ==
    [i \in 1..Len(shortcuts) |->
        IF needsRewrite(shortcuts[i])
        THEN [shortcuts[i] EXCEPT !.tagPath = CHOOSE n \in normalizeTagPath(shortcuts[i].tagPath) : TRUE]
        ELSE shortcuts[i]]

\* targets.forEach(...) of the mutator, on the current settings and the cache:
\* the collection a target names has its tag paths rewritten, and the cache
\* takes the fingerprint of the list the collection then holds (the one of
\* the target when the collection is gone)
normalizeTargets(targets, cur, cache) ==
    [collections |->
        [i \in 1..Len(cur) |->
            IF \E t \in 1..Len(targets) : findIndex(cur, targets[t].id) = i
            THEN [cur[i] EXCEPT !.shortcuts = normalizedShortcuts(@)]
            ELSE cur[i]],
     cache |->
        {e \in cache : \A t \in 1..Len(targets) : targets[t].id # e.id}
        \cup {[id |-> targets[t].id,
               fingerprint |-> IF findIndex(cur, targets[t].id) = 0 THEN targets[t].fingerprint
                               ELSE buildShortcutsFingerprint(
                                        normalizedShortcuts(cur[findIndex(cur, targets[t].id)].shortcuts))] :
                 t \in 1..Len(targets)}]

\* the effect body up to the call of updateSettings
normalizationEffect ==
    /\ effectRanFor # {collections}
    /\ effectRanFor' = {collections}
    /\ \E snapshots \in {collectionShortcutSnapshots} :
       LET pruned == {e \in normalizationFingerprintsRef : \E i \in 1..Len(snapshots) : snapshots[i].id = e.id}
           needingCheck == {i \in 1..Len(snapshots) :
                               [id |-> snapshots[i].id, fingerprint |-> snapshots[i].fingerprint] \notin pruned}
           targets == {i \in needingCheck :
                          \E k \in 1..Len(snapshots[i].shortcuts) : needsRewrite(snapshots[i].shortcuts[k])}
           checked == {[id |-> snapshots[i].id, fingerprint |-> snapshots[i].fingerprint] :
                          i \in needingCheck \ targets}
       IN  /\ normalizationFingerprintsRef' = {e \in pruned : \A c \in checked : c.id # e.id} \cup checked
           /\ settingsWrites' = IF targets = {} THEN settingsWrites
                                ELSE LET isTarget(snapshot) == \E i \in targets : snapshots[i] = snapshot
                                     IN  Append(settingsWrites, SelectSeq(snapshots, isTarget))
           /\ last' = [op |-> "normalizationEffect", ok |-> targets # {}, count |-> Cardinality(needingCheck),
                       changed |-> needingCheck]
    /\ UNCHANGED <<steps, shortcutCollections, activeShortcutCollection, hydratedShortcuts, vault,
                   vaultChangeVersion>>
    /\ UNCHANGED <<treeVars, walkVars>>

\* the effects of the last render have run: a render is followed by its
\* effects before anything else is committed and rendered
effectsHaveRun == effectRanFor = {collections}

\* the mutator of the oldest pending rewrite runs on the current settings
normalizationWriteApplied ==
    /\ effectsHaveRun
    /\ settingsWrites # <<>>
    /\ \E r \in {normalizeTargets(Head(settingsWrites), shortcutCollections, normalizationFingerprintsRef)} :
           /\ shortcutCollections' = r.collections
           /\ normalizationFingerprintsRef' = r.cache
           /\ \E shown \in {shortcutsShownFor(r.collections, activeShortcutCollection)} :
                  hydratedShortcuts' = [i \in 1..Len(shown) |-> hydrateShortcut(shown[i], vault)]
           /\ last' = [op |-> "normalizationWrite", ok |-> r.collections # shortcutCollections, count |-> 0,
                       changed |-> ChangedLists(shortcutCollections, r.collections)]
    /\ settingsWrites' = Tail(settingsWrites)
    /\ UNCHANGED <<steps, activeShortcutCollection, vault, vaultChangeVersion, effectRanFor>>
    /\ UNCHANGED <<treeVars, walkVars>>

\* shortcuts an earlier version stored with the tag path as it was entered
LegacyEntries ==
    {TagEntry(<<"#", "A">>), TagEntry(<<"a">>), TagEntry(<<"#">>), FolderEntry(<<"a">>)}
LegacyLists ==
    {<<>>} \cup {<<e>> : e \in LegacyEntries} \cup {<<e, f>> : e, f \in LegacyEntries}
    \cup {<<TagEntry(<<"b">>), TagEntry(<<"A", "/">>), FolderEntry(<<"b">>)>>}

\* the stored settings of an earlier version, no list holding a key twice
NormalizationPassInit ==
    /\ shortcutCollections \in
          {<<[id |-> DefaultId, isDefault |-> TRUE, shortcuts |-> one],
             [id |-> <<"collection", 1>>, isDefault |-> FALSE, shortcuts |-> other]>> :
              one \in {l \in LegacyLists : \A i, j \in 1..Len(l) : i # j => l[i] # l[j]},
              other \in {<<>>, <<TagEntry(<<"#", "A">>)>>}}
    /\ activeShortcutCollection = DefaultId
    /\ last = [op |-> "init", ok |-> TRUE, count |-> 0, changed |-> {}]
    /\ steps = 0
    /\ vault = [p \in VaultPaths |-> IF p = <<"a">> THEN "folder" ELSE "none"]
    /\ vaultChangeVersion = 0
    /\ hydratedShortcuts = hydrate(collectionShortcuts, vault)
    /\ NoTree

NormalizationPassNext ==
    \/ normalizationEffect
    \/ normalizationWriteApplied
    \/ effectsHaveRun /\ \E t \in TagInputs : addTagShortcut(t, NoOptions)
    \/ effectsHaveRun /\ \E e \in LegacyEntries : removeShortcut(getShortcutKey(e))

NormalizationPassSpec == NormalizationPassInit /\ [][NormalizationPassNext]_vars

\* the effect runs after every render and a settings write that was handed in
\* is applied in the end
NormalizationPassFairSpec ==
    NormalizationPassSpec /\ WF_vars(normalizationEffect) /\ WF_vars(normalizationWriteApplied)

(***************************************************************************)
(* Specification of the tag tree: builds from a file index, filters of the *)
(* built tree and note counts of its nodes, for any of the file indexes.   *)
(***************************************************************************)
\* two notes of the vault root and a note of the folder x
NoteOne == <<"n", ".", "m", "d">>
NoteTwo == <<"m", ".", "m", "d">>
NoteInFolder == <<"x", "/", "n", ".", "m", "d">>
\* a second note of the folder x and a file of the root that is no note
SecondNoteInFolder == <<"x", "/", "m", ".", "m", "d">>
Attachment == <<"p">>

\* a tag path of two segments more than the count descends: a/a/a/a
DeepTag == [i \in 1..(2 * (MAX_DEPTH_getTotalNoteCount + 2) - 1) |-> IF i % 2 = 1 THEN "a" ELSE "/"]

\* tag lists of the two notes of the root: null (not extracted yet), empty, or tags
TagsOfNoteOne ==
    {{}, {<<>>}, {<<(<<"a">>)>>}, {<<(<<"#", "A", "/", "b">>)>>}, {<<(<<"a", "/", "/", "b">>)>>},
     {<<(<<"a">>), (<<"a", "/", "b">>)>>}, {<<(<<"/">>)>>}, {<<DeepTag>>}}
\* a tag path of one segment more than the assembler takes
TooDeepTag == [i \in 1..(2 * (MAX_DEPTH + 1) - 1) |-> IF i % 2 = 1 THEN "b" ELSE "/"]

TagsOfNoteTwo ==
    {{}, {<<>>}, {<<(<<"a">>)>>}, {<<(<<"a", "/", "b">>)>>}, {<<(<<"b">>)>>},
     {<<(<<"a", "/", "b">>), (<<"b">>)>>}, {<<TooDeepTag>>}, {<<(<<"A">>)>>}}

FileIndexInputs ==
    {<<[path |-> NoteOne, tags |-> t1], [path |-> NoteTwo, tags |-> t2],
       [path |-> NoteInFolder, tags |-> {<<(<<"b">>)>>}],
       [path |-> SecondNoteInFolder, tags |-> {<<>>}],
       [path |-> Attachment, tags |-> {<<>>}]>> : t1 \in TagsOfNoteOne, t2 \in TagsOfNoteTwo}

ExcludedFolderInputs == {{}, {<<(<<"x">>)>>}}
IncludedPathsInputs == {{}, {{NoteOne, NoteInFolder}}}
MatcherInputs ==
    {[prefixes |-> <<>>, startsWithNames |-> <<>>, endsWithNames |-> <<>>],
     [prefixes |-> <<(<<"a", "/", "b">>)>>, startsWithNames |-> <<>>, endsWithNames |-> <<>>],
     [prefixes |-> <<>>, startsWithNames |-> <<(<<"b">>)>>, endsWithNames |-> <<>>],
     [prefixes |-> <<>>, startsWithNames |-> <<>>, endsWithNames |-> <<(<<"a">>)>>],
     [prefixes |-> <<(<<"b">>)>>, startsWithNames |-> <<>>, endsWithNames |-> <<>>]}

TreeInit ==
    /\ shortcutCollections = <<[id |-> DefaultId, isDefault |-> TRUE, shortcuts |-> <<>>]>>
    /\ activeShortcutCollection = DefaultId
    /\ last = [op |-> "init", ok |-> TRUE, count |-> 0, changed |-> {}]
    /\ steps = 0
    /\ vault = [p \in VaultPaths |-> "none"]
    /\ vaultChangeVersion = 0
    /\ hydratedShortcuts = <<>>
    /\ allFiles \in FileIndexInputs
    /\ heap = <<>>
    /\ tagTree = <<>>
    /\ untagged = 0
    /\ hiddenRootTags = <<>>
    /\ filteredTree = {}
    /\ noteCountCache = <<>>
    /\ tagInHand = <<>>
    /\ settingsWrites = <<>>
    /\ normalizationFingerprintsRef = {}
    /\ effectRanFor = {}
    /\ callStack = <<>>
    /\ callResult = NoResult

TreeNext ==
    \/ \E e \in ExcludedFolderInputs, inc \in IncludedPathsInputs : buildTagTreeFromDatabase(e, inc)
    \/ \E m \in MatcherInputs : excludeFromTagTree(m)
    \/ \E n \in DOMAIN heap : getTotalNoteCount(n)

TreeSpec == TreeInit /\ [][TreeNext]_vars

(***************************************************************************)
(* Lookup of a node by its path, and the specification of builds followed  *)
(* by lookups.                                                             *)
(***************************************************************************)
\* the calls of searchNode that fit on the call stack: more than the levels
\* of any tree without a cycle that the assembler makes
CallStackRoom == MAX_DEPTH + 2

\* searchNode(nodes) with room for so many nested calls: the node found, if
\* any, or thrown when the nesting runs out of stack
RECURSIVE searchNode(_, _, _, _)
searchNode(h, nodes, lowerPath, room) ==
    IF room = 0 THEN [found |-> {}, thrown |-> TRUE]
    ELSE IF nodes = <<>> THEN [found |-> {}, thrown |-> FALSE]
    ELSE IF h[Head(nodes)].path = lowerPath THEN [found |-> {Head(nodes)}, thrown |-> FALSE]
    ELSE LET found == searchNode(h, h[Head(nodes)].children, lowerPath, room - 1)
         IN  IF found.thrown \/ found.found # {} THEN found
             ELSE searchNode(h, Tail(nodes), lowerPath, room)

\* tagPath without one leading '#', lower-cased
lowerPathOf(tagPath) ==
    toLowerCase(IF startsWith(tagPath, <<"#">>) THEN SubSeq(tagPath, 2, Len(tagPath)) ELSE tagPath)

\* findTagNode(tagTree, tagPath): ok tells that it returned, changed holds
\* the node it returned, if any
findTagNode(tagPath) ==
    /\ steps < MaxSteps
    /\ LET found == searchNode(heap, tagTree, lowerPathOf(tagPath), CallStackRoom)
       IN  /\ steps' = steps + 1
           /\ last' = [op |-> "findTagNode", ok |-> ~found.thrown,
                       count |-> Cardinality(found.found), changed |-> found.found]
    /\ UNCHANGED storeVars
    /\ UNCHANGED <<settingsWrites, passVars, walkVars>>
    /\ UNCHANGED treeVars

\* the arguments of a lookup: the display paths of the built nodes, with and
\* without '#', in their own and in other casing, and a path of no node
TagPathInputs ==
    LET shown == {heap[n].displayPath : n \in BuiltIds} \cup {<<"z">>, <<"A", "/", "B">>}
    IN  shown \cup {<<"#">> \o p : p \in shown}

LookupNext ==
    \/ \E e \in ExcludedFolderInputs, inc \in IncludedPathsInputs : buildTagTreeFromDatabase(e, inc)
    \/ \E p \in TagPathInputs : findTagNode(p)

LookupSpec == TreeInit /\ [][LookupNext]_vars

(***************************************************************************)
(* The three walks over a node graph, one call of the recursion at a time. *)
(* A frame of callStack is a call of the helper that has entered a node    *)
(* and is looping over its children: the node, the children still to       *)
(* visit and, for the filter, the copies kept so far.  The visited set of  *)
(* the source is the set of paths of the nodes on the stack (the paths are *)
(* added on entry and deleted on exit, or copied for every child), its     *)
(* depth the number of nodes on the stack.                                 *)
(***************************************************************************)
\* MAX of visited.size in collectAllTagPaths: 1000 in the source, scaled down
MAX_VISITED_collectAllTagPaths == 3

Frame(node, rest) == [node |-> node, rest |-> rest, kept |-> <<>>]

\* the frame of the innermost call, the stack without it, the stack with
\* the innermost frame replaced
TopFrame == callStack[Len(callStack)]
Popped == SubSeq(callStack, 1, Len(callStack) - 1)
WithTop(f) == [callStack EXCEPT ![Len(callStack)] = f]

\* the paths of the nodes that the calls on the stack have entered
visitedPaths == {heap[n].path : n \in UNION {callStack[i].node : i \in 1..Len(callStack)}}

\* a walk leaves the store, the file index and the trees alone
WalkLeaves ==
    /\ UNCHANGED storeVars
    /\ UNCHANGED <<settingsWrites, passVars>>
    /\ UNCHANGED <<allFiles, heap, tagTree, untagged, hiddenRootTags, filteredTree, tagInHand>>

\* getTotalNoteCount up to the first call of collectFromChildren
getTotalNoteCountCalled(node) ==
    /\ callStack = <<>>
    /\ steps < MaxSteps
    /\ steps' = steps + 1
    /\ IF node \in DOMAIN noteCountCache
       THEN /\ callStack' = <<>>
            /\ callResult' = [NoResult EXCEPT !.op = "getTotalNoteCount", !.node = {node},
                                              !.count = noteCountCache[node]]
            /\ last' = [op |-> "getTotalNoteCount", ok |-> TRUE, count |-> noteCountCache[node], changed |-> {}]
       ELSE /\ callStack' = IF MAX_DEPTH_getTotalNoteCount > 0 THEN <<Frame({node}, heap[node].children)>>
                            ELSE <<Frame({node}, <<>>)>>
            /\ callResult' = [NoResult EXCEPT !.op = "getTotalNoteCount", !.node = {node},
                                              !.files = heap[node].notesWithTag]
            /\ last' = [op |-> "getTotalNoteCount", ok |-> FALSE, count |-> 0, changed |-> {}]
    /\ UNCHANGED noteCountCache
    /\ WalkLeaves

\* getTotalNoteCountStep returning the count gathered so far when it meets a
\* node that is on the stack, instead of going on with the next child
getTotalNoteCountStepLeavingAtCycle ==
    /\ callStack # <<>>
    /\ callResult.op = "getTotalNoteCount"
    /\ IF TopFrame.rest = <<>>
       THEN /\ callStack' = Popped
            /\ IF Len(callStack) = 1
               THEN /\ callResult' = [callResult EXCEPT !.count = Cardinality(callResult.files)]
                    /\ noteCountCache' = (CHOOSE n \in callResult.node : TRUE) :> Cardinality(callResult.files)
                                         @@ noteCountCache
                    /\ last' = [last EXCEPT !.ok = TRUE, !.count = Cardinality(callResult.files)]
               ELSE UNCHANGED <<callResult, noteCountCache, last>>
       ELSE LET child == Head(TopFrame.rest)
                advanced == WithTop([TopFrame EXCEPT !.rest = Tail(@)])
                files == callResult.files \cup heap[child].notesWithTag
            IN  IF heap[child].path \in visitedPaths
                THEN /\ callStack' = <<>>
                     /\ callResult' = [callResult EXCEPT !.files = files, !.count = Cardinality(files)]
                     /\ last' = [last EXCEPT !.ok = TRUE, !.count = Cardinality(files)]
                     /\ UNCHANGED noteCountCache
                ELSE /\ callResult' = [callResult EXCEPT !.files = files]
                     /\ callStack' = IF Len(callStack) >= MAX_DEPTH_getTotalNoteCount
                                     THEN advanced
                                     ELSE Append(advanced, Frame({child}, heap[child].children))
                     /\ UNCHANGED <<noteCountCache, last>>
    /\ UNCHANGED steps
    /\ WalkLeaves

\* one turn of the loop of collectFromChildren, or its return; the return of
\* the outermost call is followed by cache.set and the return of the count
getTotalNoteCountStep ==
    /\ callStack # <<>>
    /\ callResult.op = "getTotalNoteCount"
    /\ IF TopFrame.rest = <<>>
       THEN /\ callStack' = Popped
            /\ IF Len(callStack) = 1
               THEN /\ callResult' = [callResult EXCEPT !.count = Cardinality(callResult.files)]
                    /\ noteCountCache' = (CHOOSE n \in callResult.node : TRUE) :> Cardinality(callResult.files)
                                         @@ noteCountCache
                    /\ last' = [last EXCEPT !.ok = TRUE, !.count = Cardinality(callResult.files)]
               ELSE UNCHANGED <<callResult, noteCountCache, last>>
       ELSE LET child == Head(TopFrame.rest)
                advanced == WithTop([TopFrame EXCEPT !.rest = Tail(@)])
            IN  /\ callResult' = [callResult EXCEPT !.files = @ \cup heap[child].notesWithTag]
                /\ callStack' = IF heap[child].path \in visitedPaths
                                   \/ Len(callStack) >= MAX_DEPTH_getTotalNoteCount
                                THEN advanced
                                ELSE Append(advanced, Frame({child}, heap[child].children))
                /\ UNCHANGED <<noteCountCache, last>>
    /\ UNCHANGED steps
    /\ WalkLeaves

\* collectAllTagPaths called with a node and no further arguments
collectAllTagPathsCalled(node) ==
    /\ callStack = <<>>
    /\ steps < MaxSteps
    /\ steps' = steps + 1
    /\ callStack' = IF MAX_VISITED_collectAllTagPaths > 0 THEN <<Frame({node}, heap[node].children)>>
                    ELSE <<Frame({node}, <<>>)>>
    /\ callResult' = [NoResult EXCEPT !.op = "collectAllTagPaths", !.node = {node},
                                      !.paths = IF MAX_VISITED_collectAllTagPaths > 0 THEN {heap[node].path}
                                                ELSE {}]
    /\ last' = [op |-> "collectAllTagPaths", ok |-> FALSE, count |-> 0, changed |-> {}]
    /\ UNCHANGED noteCountCache
    /\ WalkLeaves

\* one turn of the loop over the children in collectAllTagPaths: the call for
\* the child with a copy of the visited set, or the return of the paths
collectAllTagPathsStep ==
    /\ callStack # <<>>
    /\ callResult.op = "collectAllTagPaths"
    /\ IF TopFrame.rest = <<>>
       THEN /\ callStack' = Popped
            /\ UNCHANGED callResult
            /\ last' = IF Len(callStack) = 1
                       THEN [last EXCEPT !.ok = TRUE, !.count = Cardinality(callResult.paths)]
                       ELSE last
       ELSE LET child == Head(TopFrame.rest)
                advanced == WithTop([TopFrame EXCEPT !.rest = Tail(@)])
                returnsAtOnce == \/ heap[child].path \in visitedPaths
                                 \/ Cardinality(visitedPaths) >= MAX_VISITED_collectAllTagPaths
            IN  /\ callResult' = IF returnsAtOnce THEN callResult
                                 ELSE [callResult EXCEPT !.paths = @ \cup {heap[child].path}]
                /\ callStack' = IF returnsAtOnce THEN advanced
                                ELSE Append(advanced, Frame({child}, heap[child].children))
                /\ UNCHANGED last
    /\ UNCHANGED <<steps, noteCountCache>>
    /\ WalkLeaves

\* excludeFromTagTree up to the loop over the root nodes: the frame without
\* a node is that loop
excludeFromTagTreeCalled(matcher) ==
    /\ callStack = <<>>
    /\ steps < MaxSteps
    /\ steps' = steps + 1
    /\ IF Len(matcher.prefixes) = 0 /\ Len(matcher.startsWithNames) = 0 /\ Len(matcher.endsWithNames) = 0
       THEN /\ callStack' = <<>>
            /\ callResult' = [NoResult EXCEPT !.op = "excludeFromTagTree", !.matcher = {matcher},
                                              !.roots = [k \in 1..Len(tagTree) |-> heap[tagTree[k]].path]]
            /\ last' = [op |-> "excludeFromTagTree", ok |-> TRUE, count |-> Len(tagTree), changed |-> {}]
       ELSE /\ callStack' = <<Frame({}, tagTree)>>
            /\ callResult' = [NoResult EXCEPT !.op = "excludeFromTagTree", !.matcher = {matcher}]
            /\ last' = [op |-> "excludeFromTagTree", ok |-> FALSE, count |-> 0, changed |-> {}]
    /\ UNCHANGED noteCountCache
    /\ WalkLeaves

\* one call of shouldIncludeNode from a loop over nodes, the return of
\* shouldIncludeNode after its loop, or the return of the filtered root map
excludeFromTagTreeStep ==
    /\ callStack # <<>>
    /\ callResult.op = "excludeFromTagTree"
    /\ LET matcher == CHOOSE m \in callResult.matcher : TRUE
       IN  IF TopFrame.rest # <<>>
           THEN LET child == Head(TopFrame.rest)
                    advanced == WithTop([TopFrame EXCEPT !.rest = Tail(@)])
                IN  /\ callStack' = IF \/ heap[child].path \in visitedPaths
                                       \/ Len(callStack) - 1 >= MAX_DEPTH_excludeFromTagTree
                                       \/ matchesHiddenTagPattern(heap[child].path, heap[child].name, matcher)
                                    THEN advanced
                                    ELSE Append(advanced, Frame({child}, heap[child].children))
                    /\ UNCHANGED <<callResult, last>>
           ELSE IF TopFrame.node = {}
           THEN /\ callStack' = <<>>
                /\ callResult' = [callResult EXCEPT !.roots = TopFrame.kept]
                /\ last' = [last EXCEPT !.ok = TRUE, !.count = Len(TopFrame.kept)]
           ELSE LET node == CHOOSE n \in TopFrame.node : TRUE
                    parent == Popped[Len(Popped)]
                IN  IF Len(TopFrame.kept) = 0 /\ Cardinality(heap[node].notesWithTag) = 0
                    THEN /\ callStack' = Popped
                         /\ UNCHANGED <<callResult, last>>
                    ELSE /\ callStack' = [Popped EXCEPT ![Len(Popped)] =
                                             [parent EXCEPT !.kept = Append(@, heap[node].path)]]
                         /\ callResult' = [callResult EXCEPT !.kept =
                                              @ \cup {[path |-> heap[node].path, children |-> TopFrame.kept]}]
                         /\ UNCHANGED last
    /\ UNCHANGED <<steps, noteCountCache>>
    /\ WalkLeaves

(***************************************************************************)
(* Specification of the walks over node graphs that no build makes: a node *)
(* that is its own child, a node below itself, a node with two parents, a  *)
(* chain deeper than every cap.                                            *)
(***************************************************************************)
GraphNode(name, path, children, notes) ==
    [name |-> name, path |-> path, displayPath |-> path,
     children |-> [k \in 1..Len(children) |-> builtId(children[k])], notesWithTag |-> notes]

\* the path a/a/.../a of n segments
ChainPath(n) == [i \in 1..(2 * n - 1) |-> IF i % 2 = 1 THEN "a" ELSE "/"]

\* more levels than any of the three walks descends
ChainLength ==
    2 + (IF MAX_DEPTH_getTotalNoteCount >= MAX_DEPTH_excludeFromTagTree
         THEN (IF MAX_DEPTH_getTotalNoteCount >= MAX_VISITED_collectAllTagPaths
               THEN MAX_DEPTH_getTotalNoteCount ELSE MAX_VISITED_collectAllTagPaths)
         ELSE (IF MAX_DEPTH_excludeFromTagTree >= MAX_VISITED_collectAllTagPaths
               THEN MAX_DEPTH_excludeFromTagTree ELSE MAX_VISITED_collectAllTagPaths))

NodeGraphInputs ==
    LET a == <<"a">>
        ab == <<"a", "/", "b">>
        ac == <<"a", "/", "c">>
        ad == <<"a", "/", "d">>
    IN  {\* a is its own child, and has the child a/c after that
         builtId(a) :> GraphNode(<<"a">>, a, <<a, ac>>, {})
           @@ builtId(ac) :> GraphNode(<<"c">>, ac, <<>>, {NoteTwo}),
         \* a/b lies below a and has a as its child; a/c comes after a/b
         builtId(a) :> GraphNode(<<"a">>, a, <<ab, ac>>, {})
           @@ builtId(ab) :> GraphNode(<<"b">>, ab, <<a>>, {NoteOne})
           @@ builtId(ac) :> GraphNode(<<"c">>, ac, <<>>, {NoteTwo}),
         \* a/d is a child of a/b and of a/c
         builtId(a) :> GraphNode(<<"a">>, a, <<ab, ac>>, {})
           @@ builtId(ab) :> GraphNode(<<"b">>, ab, <<ad>>, {})
           @@ builtId(ac) :> GraphNode(<<"c">>, ac, <<ad>>, {NoteTwo})
           @@ builtId(ad) :> GraphNode(<<"d">>, ad, <<>>, {NoteOne}),
         \* a chain below a that ends with a note, and a/c after the chain
         [id \in {builtId(ChainPath(n)) : n \in 1..ChainLength} \cup {builtId(ac)} |->
             IF id = builtId(ac) THEN GraphNode(<<"c">>, ac, <<>>, {NoteTwo})
             ELSE LET n == (Len(id[2]) + 1) \div 2
                  IN  GraphNode(<<"a">>, id[2],
                                IF n = 1 THEN <<ChainPath(2), ac>>
                                ELSE IF n < ChainLength THEN <<ChainPath(n + 1)>> ELSE <<>>,
                                IF n = ChainLength THEN {NoteOne} ELSE {})]}

WalkInit ==
    /\ shortcutCollections = <<[id |-> DefaultId, isDefault |-> TRUE, shortcuts |-> <<>>]>>
    /\ activeShortcutCollection = DefaultId
    /\ last = [op |-> "init", ok |-> TRUE, count |-> 0, changed |-> {}]
    /\ steps = 0
    /\ vault = [p \in VaultPaths |-> "none"]
    /\ vaultChangeVersion = 0
    /\ hydratedShortcuts = <<>>
    /\ allFiles = <<>>
    /\ heap \in NodeGraphInputs
    /\ tagTree = <<builtId(<<"a">>)>>
    /\ untagged = 0
    /\ hiddenRootTags = <<>>
    /\ filteredTree = {}
    /\ noteCountCache = <<>>
    /\ tagInHand = <<>>
    /\ settingsWrites = <<>>
    /\ normalizationFingerprintsRef = {}
    /\ effectRanFor = {}
    /\ callStack = <<>>
    /\ callResult = NoResult

WalkNext ==
    \/ \E n \in DOMAIN heap : getTotalNoteCountCalled(n)
    \/ getTotalNoteCountStep
    \/ \E n \in DOMAIN heap : collectAllTagPathsCalled(n)
    \/ collectAllTagPathsStep
    \/ \E m \in MatcherInputs : excludeFromTagTreeCalled(m)
    \/ excludeFromTagTreeStep

WalkSpec == WalkInit /\ [][WalkNext]_vars

\* a call that was made runs on: the walks are synchronous code
WalkFairSpec ==
    /\ WalkSpec
    /\ WF_vars(getTotalNoteCountStep)
    /\ WF_vars(collectAllTagPathsStep)
    /\ WF_vars(excludeFromTagTreeStep)

(***************************************************************************)
(* Specification of the tag normalizer: any raw tag string, normalized     *)
(* again and again.                                                        *)
(***************************************************************************)
\* most characters of a raw tag after its prefix
MaxTagLen == 4

\* the strings of at most n characters out of a/A/b and the slash
RECURSIVE TagBodies(_)
TagBodies(n) ==
    IF n = 0 THEN {<<>>}
    ELSE LET shorter == TagBodies(n - 1)
         IN  shorter \cup {Append(body, c) : body \in shorter, c \in {"a", "A", "b", "/"}}

\* raw tag strings: with or without the '#' prefix, mixed case, leading,
\* trailing and doubled slashes, empty
RawTagInputs == {prefix \o body : prefix \in {<<>>, <<"#">>}, body \in TagBodies(MaxTagLen)}

NormalizerInit ==
    /\ shortcutCollections = <<[id |-> DefaultId, isDefault |-> TRUE, shortcuts |-> <<>>]>>
    /\ activeShortcutCollection = DefaultId
    /\ last = [op |-> "init", ok |-> TRUE, count |-> 0, changed |-> {}]
    /\ steps = 0
    /\ vault = [p \in VaultPaths |-> "none"]
    /\ vaultChangeVersion = 0
    /\ hydratedShortcuts = <<>>
    /\ allFiles = <<>>
    /\ heap = <<>>
    /\ tagTree = <<>>
    /\ untagged = 0
    /\ hiddenRootTags = <<>>
    /\ filteredTree = {}
    /\ noteCountCache = <<>>
    /\ tagInHand \in RawTagInputs
    /\ settingsWrites = <<>>
    /\ normalizationFingerprintsRef = {}
    /\ effectRanFor = {}
    /\ callStack = <<>>
    /\ callResult = NoResult

NormalizerNext == normalizeTagValue

NormalizerSpec == NormalizerInit /\ [][NormalizerNext]_vars

(***************************************************************************)
(* Vocabulary of the properties                                            *)
(***************************************************************************)
\* set of the derived keys of a shortcut list
KeySetOf(shortcuts) == {getShortcutKey(e) : e \in Range(shortcuts)}

\* the shortcut list of the collection the active id names (empty when none)
ActiveList ==
    IF findIndex(shortcutCollections, activeShortcutCollection) = 0 THEN <<>>
    ELSE shortcutCollections[findIndex(shortcutCollections, activeShortcutCollection)].shortcuts

\* no operation result changed the stored state
StoreUnchanged ==
    /\ shortcutCollections' = shortcutCollections
    /\ activeShortcutCollection' = activeShortcutCollection

(***************************************************************************)
(* C1: per-collection key uniqueness.  Starting from collections without   *)
(* duplicate keys, after any sequence of add / addBatch / remove / reorder *)
(* operations run one after the other, no collection's shortcut list holds *)
(* two entries with the same derived key.                                  *)
(***************************************************************************)
C1_KeysUniquePerCollection ==
    \A c \in 1..Len(shortcutCollections) :
        \A i, j \in 1..Len(shortcutCollections[c].shortcuts) :
            i # j => getShortcutKey(shortcutCollections[c].shortcuts[i])
                     # getShortcutKey(shortcutCollections[c].shortcuts[j])

(***************************************************************************)
(* C2: reorder atomicity.  reorderShortcuts(orderedKeys) with a key list   *)
(* that omits a key of the active collection, or holds a key the active    *)
(* collection does not have, returns failure and leaves every collection   *)
(* and the active id unchanged.                                            *)
(***************************************************************************)
C2_ReorderAtomicity ==
    [][\A ks \in OrderedKeysInputs :
          (/\ reorderShortcuts(ks)
           /\ \/ \E k \in KeySetOf(ActiveList) : k \notin Range(ks)
              \/ \E k \in Range(ks) : k \notin KeySetOf(ActiveList))
          => (~last'.ok /\ StoreUnchanged)]_vars

(***************************************************************************)
(* C3: deleteCollection(id), id naming the collection marked isDefault,    *)
(* returns failure and leaves the collection list and the active id        *)
(* unchanged, from every reachable state.                                  *)
(***************************************************************************)
C3_DeleteDefaultRefused ==
    [][last'.op = "deleteCollection" =>
          \A id \in CollectionIdInputs :
             (/\ deleteCollection(id)
              /\ \E i \in 1..Len(shortcutCollections) :
                    shortcutCollections[i].id = id /\ shortcutCollections[i].isDefault)
             => (~last'.ok /\ StoreUnchanged)]_vars

\* a deletion of the default collection was refused while another collection exists
C3_Witness ==
    /\ last.op = "deleteCollection"
    /\ ~last.ok
    /\ Len(shortcutCollections) >= 2
    /\ \E i \in 1..Len(shortcutCollections) : shortcutCollections[i].isDefault

(***************************************************************************)
(* C4: when deleteCollection(id) succeeds for the currently active         *)
(* non-default collection, afterwards that collection is absent, all other *)
(* collections are unchanged and in their previous order, and the active   *)
(* id is the id of the collection marked isDefault, an id that exists in   *)
(* the collection list.                                                    *)
(***************************************************************************)
C4_DeleteActiveFallsBackToDefault ==
    [][\A id \in CollectionIdInputs :
          (/\ deleteCollection(id)
           /\ last'.ok
           /\ id = activeShortcutCollection
           /\ \E i \in 1..Len(shortcutCollections) :
                 shortcutCollections[i].id = id /\ ~shortcutCollections[i].isDefault)
          => (/\ \A i \in 1..Len(shortcutCollections') : shortcutCollections'[i].id # id
              /\ shortcutCollections' = SelectSeq(shortcutCollections, LAMBDA c : c.id # id)
              /\ \E i \in 1..Len(shortcutCollections') :
                    /\ shortcutCollections'[i].isDefault
                    /\ shortcutCollections'[i].id = activeShortcutCollection')]_vars

(***************************************************************************)
(* C5: remove(key), for every key contained in at least one collection     *)
(* (active or not), strips the entry with that key from every collection's *)
(* list, so that afterwards no collection contains the key, while all      *)
(* other entries of every collection keep their relative order.            *)
(***************************************************************************)
\* every collection's list with the entries of that key taken out, all else as it was
StrippedOf(cs, key) ==
    [i \in 1..Len(cs) |->
        [cs[i] EXCEPT !.shortcuts = SelectSeq(cs[i].shortcuts, LAMBDA e : getShortcutKey(e) # key)]]

ShownList ==
    IF findIndex(shortcutCollections, activeShortcutCollection) # 0 THEN ActiveList
    ELSE IF Len(shortcutCollections) > 0 THEN shortcutCollections[1].shortcuts
    ELSE <<>>

TargetId(options) ==
    IF options.collectionId = {} THEN activeShortcutCollection
    ELSE CHOOSE id \in options.collectionId : TRUE

\* position of that collection in the stored list before the add, 0 when no
\* collection has the id
TargetPos(options) == findIndex(shortcutCollections, TargetId(options))
TargetList(options) == shortcutCollections[TargetPos(options)].shortcuts

\* min(max(index, 0), length), or length when no index is given
ClampedPosition(index, length) ==
    IF index = {} THEN length
    ELSE LET i == CHOOSE n \in index : TRUE
         IN  IF i < 0 THEN 0 ELSE IF i > length THEN length ELSE i

\* list l with the entries es put in after its first pos entries
InsertedAt(l, pos, es) ==
    [k \in 1..(Len(l) + Len(es)) |->
        IF k <= pos THEN l[k] ELSE IF k <= pos + Len(es) THEN es[k - pos] ELSE l[k - Len(es)]]

\* the store after the entries es went into the target at the clamped index:
\* only the target's list differs, the active id stays
AddedTo(options, es) ==
    /\ TargetPos(options) # 0
    /\ shortcutCollections' =
          [shortcutCollections EXCEPT ![TargetPos(options)].shortcuts =
              InsertedAt(@, ClampedPosition(options.index, Len(@)), es)]
    /\ activeShortcutCollection' = activeShortcutCollection

\* rejected without mutation when the target holds the key, accepted otherwise
RejectedIffKeyInTarget(options, key) ==
    IF key \in KeySetOf(TargetList(options)) THEN ~last'.ok /\ StoreUnchanged ELSE last'.ok

(***************************************************************************)
(* C6: addFolder / addNote / addTag into target collection C (explicit     *)
(* collectionId, else the active one) is rejected, with failure and no     *)
(* collection changed, when C already holds an entry with the same derived *)
(* key (same type and path), and is accepted otherwise: the same key in    *)
(* another collection, or an entry of another type with the same path      *)
(* string in C, does not cause rejection.                                  *)
(***************************************************************************)
C6_AddRejectedIffSameKeyInTarget ==
    [][\A o \in OptionInputs :
          TargetPos(o) # 0 =>
            /\ \A p \in PathInputs :
                  /\ addFolderShortcut(p, o) => RejectedIffKeyInTarget(o, <<FOLDER, p>>)
                  /\ addNoteShortcut(p, o) => RejectedIffKeyInTarget(o, <<NOTE, p>>)
            /\ \A t \in TagInputs : \A n \in normalizeTagPath(t) :
                  addTagShortcut(t, o) => RejectedIffKeyInTarget(o, <<TAG, n>>)]_vars

(***************************************************************************)
(* C7: addSearch fails without mutation when the trimmed name or query is  *)
(* empty, and its case-insensitive name check is made against the          *)
(* collection the entry goes into (explicit collectionId, else the active  *)
(* one): it is rejected iff that target already holds a search shortcut    *)
(* whose name equals the trimmed name ignoring case.                       *)
(***************************************************************************)
C7_SearchNameCheckedAgainstTarget ==
    [][\A i \in SearchInputs, o \in OptionInputs :
          (addSearchShortcut(i.name, i.query, i.provider, o) /\ TargetPos(o) # 0)
          => IF \/ trim(i.name) = <<>>
                \/ trim(i.query) = <<>>
                \/ \E e \in Range(TargetList(o)) :
                      isSearchShortcut(e) /\ toLowerCase(e.name) = toLowerCase(trim(i.name))
             THEN ~last'.ok /\ StoreUnchanged
             ELSE last'.ok]_vars

(***************************************************************************)
(* C8: a successful add inserts the new entry at position                  *)
(* min(max(index, 0), length) of the target collection's pre-state list    *)
(* (at the end when no index is given), keeps the relative order of the    *)
(* entries that were there, and leaves every other collection and the      *)
(* active collection id unchanged.                                         *)
(***************************************************************************)
C8_AddInsertsAtClampedIndex ==
    [][last'.ok =>
          /\ last'.op = "addFolderShortcut" =>
                \A o \in OptionInputs, p \in PathInputs :
                   addFolderShortcut(p, o) => AddedTo(o, <<FolderEntry(p)>>)
          /\ last'.op = "addNoteShortcut" =>
                \A o \in OptionInputs, p \in PathInputs :
                   addNoteShortcut(p, o) => AddedTo(o, <<NoteEntry(p)>>)
          /\ last'.op = "addTagShortcut" =>
                \A o \in OptionInputs, t \in TagInputs : \A n \in normalizeTagPath(t) :
                   addTagShortcut(t, o) => AddedTo(o, <<TagEntry(n)>>)
          /\ last'.op = "addSearchShortcut" =>
                \A o \in OptionInputs, i \in SearchInputs :
                   addSearchShortcut(i.name, i.query, i.provider, o)
                   => AddedTo(o, <<SearchEntry(trim(i.name), trim(i.query), i.provider)>>)]_vars

\* a search shortcut has just been put in front of two older entries of one list
C8_Witness ==
    /\ last.op = "addSearchShortcut"
    /\ last.ok
    /\ \E c \in 1..Len(shortcutCollections) :
          /\ last.changed = {c}
          /\ Len(shortcutCollections[c].shortcuts) = 3
          /\ isSearchShortcut(shortcutCollections[c].shortcuts[1])

(***************************************************************************)
(* C9: addBatch returns exactly the number of entries it inserted: the     *)
(* returned count is the growth in length of the target collection's list, *)
(* for every batch and target id, 0 for an id that matches no collection.  *)
(***************************************************************************)
C9_BatchCountIsGrowth ==
    [][\A b \in BatchInputs, o \in OptionInputs :
          addShortcutsBatch(b, o)
          => last'.count = IF TargetPos(o) = 0 THEN 0
                           ELSE Len(shortcutCollections'[TargetPos(o)].shortcuts) - Len(TargetList(o))]_vars

(***************************************************************************)
(* C10: addBatch inserts exactly the valid batch entries whose key is      *)
(* neither present in the target collection (explicit collectionId, else   *)
(* active) nor produced by an earlier entry of the batch, in batch order   *)
(* at consecutive positions; no entry is dropped because of the content of *)
(* a collection other than the target.                                     *)
(***************************************************************************)
\* the entry as it is stored, or nothing when it is invalid
ValidForm(entry) ==
    IF entry.type = TAG THEN {[entry EXCEPT !.tagPath = n] : n \in normalizeTagPath(entry.tagPath)}
    ELSE IF entry.type = SEARCH
    THEN IF trim(entry.name) = <<>> \/ trim(entry.query) = <<>> THEN {}
         ELSE {[entry EXCEPT !.name = trim(entry.name), !.query = trim(entry.query)]}
    ELSE {entry}

RECURSIVE BatchSurvivors(_, _)
BatchSurvivors(entries, seenKeys) ==
    IF entries = <<>> THEN <<>>
    ELSE LET fresh == {e \in ValidForm(Head(entries)) : getShortcutKey(e) \notin seenKeys}
         IN  IF fresh = {} THEN BatchSurvivors(Tail(entries), seenKeys)
             ELSE <<CHOOSE e \in fresh : TRUE>>
                  \o BatchSurvivors(Tail(entries), seenKeys \cup {getShortcutKey(e) : e \in fresh})

C10_BatchDedupedAgainstTarget ==
    [][\A b \in BatchInputs, o \in OptionInputs :
          (addShortcutsBatch(b, o) /\ TargetPos(o) # 0)
          => AddedTo(o, BatchSurvivors(b, KeySetOf(TargetList(o))))]_vars

(***************************************************************************)
(* C11: tag paths are normalized before the uniqueness check and before    *)
(* storage.  Every TAG entry stored by addTag or addBatch carries a        *)
(* tagPath equal to its own normalization; two raw tags with the same      *)
(* normalization cannot both be added to one collection; a raw tag whose   *)
(* normalization is empty is rejected with failure and no mutation.        *)
(***************************************************************************)
\* the TAG entries of a shortcut list, in list order
TagEntriesOf(shortcuts) == SelectSeq(shortcuts, isTagShortcut)

\* every stored TAG entry carries its own normalization
TagPathsNormalized(cs) ==
    \A c \in 1..Len(cs) : \A e \in Range(TagEntriesOf(cs[c].shortcuts)) :
        normalizeTagPath(e.tagPath) = {e.tagPath}

\* no collection holds two TAG entries with one normalization
NoTagTwice(cs) ==
    \A c \in 1..Len(cs) :
        LET tags == TagEntriesOf(cs[c].shortcuts)
        IN  \A i, j \in 1..Len(tags) :
               i # j => normalizeTagPath(tags[i].tagPath) # normalizeTagPath(tags[j].tagPath)

\* the raw tags whose normalization is empty, and the batches made of such tags only
EmptyTagInputs == {t \in TagInputs : normalizeTagPath(t) = {}}
EmptyTagBatches ==
    {b \in BatchInputs :
        b # <<>> /\ \A i \in 1..Len(b) : isTagShortcut(b[i]) /\ normalizeTagPath(b[i].tagPath) = {}}

C11_TagPathsNormalizedBeforeUse ==
    [][last'.op \in {"addTagShortcut", "addShortcutsBatch"} =>
          /\ TagPathsNormalized(shortcutCollections) => TagPathsNormalized(shortcutCollections')
          /\ NoTagTwice(shortcutCollections) => NoTagTwice(shortcutCollections')
          /\ last'.op = "addTagShortcut" =>
                \A t \in TagInputs, o \in OptionInputs :
                   (/\ \/ t \in EmptyTagInputs
                       \/ /\ TargetPos(o) # 0
                          /\ \E e \in Range(TagEntriesOf(TargetList(o))) :
                                normalizeTagPath(e.tagPath) = normalizeTagPath(t)
                    /\ addTagShortcut(t, o))
                   => (~last'.ok /\ StoreUnchanged)
          /\ last'.op = "addShortcutsBatch" =>
                \A b \in EmptyTagBatches, o \in OptionInputs :
                   addShortcutsBatch(b, o)
                   => (~last'.ok /\ last'.count = 0 /\ StoreUnchanged)]_vars

\* an addTag was refused for a collection list that holds the tag in normalized form
C11_Witness ==
    /\ last.op = "addTagShortcut"
    /\ ~last.ok
    /\ \E c \in 1..Len(shortcutCollections) :
          /\ shortcutCollections[c].id = activeShortcutCollection
          /\ TagEntry(<<"a">>) \in Range(shortcutCollections[c].shortcuts)

(***************************************************************************)
(* C12: not-found on mutation.  remove(key) with a key contained in no     *)
(* collection, reorderShortcuts with a key the active collection does not  *)
(* contain, reorderCollections with an id that matches no collection and   *)
(* deleteCollection(id) with an id that matches no collection each return  *)
(* failure and leave the collection list and the active id unchanged.      *)
(***************************************************************************)
C12_NotFoundOnMutation ==
    [][/\ last'.op = "removeShortcut" =>
             \A key \in KeyInputs :
                (/\ removeShortcut(key)
                 /\ \A i \in 1..Len(shortcutCollections) : key \notin KeySetOf(shortcutCollections[i].shortcuts))
                => (~last'.ok /\ StoreUnchanged)
       /\ last'.op = "reorderShortcuts" =>
             \A ks \in OrderedKeysInputs :
                (reorderShortcuts(ks) /\ \E k \in Range(ks) : k \notin KeySetOf(ActiveList))
                => (~last'.ok /\ StoreUnchanged)
       /\ last'.op = "reorderCollections" =>
             \A ids \in OrderedIdsInputs :
                (reorderCollections(ids) /\ \E id \in Range(ids) : findIndex(shortcutCollections, id) = 0)
                => (~last'.ok /\ StoreUnchanged)
       /\ last'.op = "deleteCollection" =>
             \A id \in CollectionIdInputs :
                (deleteCollection(id) /\ findIndex(shortcutCollections, id) = 0)
                => (~last'.ok /\ StoreUnchanged)]_vars

(***************************************************************************)
(* C13: in every state reachable through addCollection, updateCollection,  *)
(* deleteCollection, reorderCollections and the legacy-shortcuts           *)
(* migration, exactly one collection carries isDefault = true.             *)
(***************************************************************************)
C13_ExactlyOneDefault ==
    Cardinality({i \in 1..Len(shortcutCollections) : shortcutCollections[i].isDefault}) = 1

(***************************************************************************)
(* C14: hydration is advisory only.  Recomputing the hydrated list never   *)
(* changes any collection; the hydrated list has the same length, keys and *)
(* order as the shortcut list of the active collection (the one shown:     *)
(* the collection the active id names, else the first one); a folder       *)
(* (resp. note) entry has isMissing = true exactly when its path does not  *)
(* currently resolve to a folder (resp. file), the entry staying stored.   *)
(***************************************************************************)
\* the path currently leads to something of this kind
ResolvesTo(path, kind) ==
    \/ kind = "folder" /\ path = RootPath
    \/ path \in DOMAIN vault /\ vault[path] = kind

HydratedListMatchesShownList ==
    /\ Len(hydratedShortcuts) = Len(ShownList)
    /\ \A i \in 1..Len(hydratedShortcuts) :
          LET h == hydratedShortcuts[i]
          IN  /\ h.shortcut = ShownList[i]
              /\ h.key = getShortcutKey(ShownList[i])
              /\ isFolderShortcut(h.shortcut) => (h.isMissing <=> ~ResolvesTo(h.shortcut.path, "folder"))
              /\ isNoteShortcut(h.shortcut) => (h.isMissing <=> ~ResolvesTo(h.shortcut.path, "file"))

C14_HydrationIsAdvisory ==
    /\ HydratedListMatchesShownList
    /\ [][/\ HydratedListMatchesShownList'
          /\ last'.op \in {"handleCreate", "handleDelete", "handleRename"} => StoreUnchanged]_vars

\* a rename has just turned a folder shortcut of the shown list into a missing
\* one, the entry still being stored
C14_Witness ==
    /\ last.op = "handleRename"
    /\ vaultChangeVersion > 0
    /\ \E i \in 1..Len(hydratedShortcuts) :
          /\ isFolderShortcut(hydratedShortcuts[i].shortcut)
          /\ hydratedShortcuts[i].isMissing
          /\ hydratedShortcuts[i].shortcut \in Range(ShownList)

(***************************************************************************)
(* Vocabulary of the tag tree properties                                   *)
(***************************************************************************)
\* the ids in a map of nodes
IdsOf(nodeMap) == {nodeMap[k] : k \in 1..Len(nodeMap)}

\* the nodes reached from the frontier through children maps, the frontier included
RECURSIVE ReachedFrom(_, _, _)
ReachedFrom(h, frontier, seen) ==
    IF frontier \subseteq seen THEN seen
    ELSE ReachedFrom(h, UNION {IdsOf(h[n].children) : n \in frontier \ seen}, seen \cup frontier)

\* the node itself and all its descendants
SubtreeOf(h, n) == ReachedFrom(h, {n}, {})

\* the descendants of a node
DescendantsOf(h, n) == ReachedFrom(h, IdsOf(h[n].children), {})

\* the files a build with these arguments takes tags from: inside includedPaths
\* when supplied, in no excluded folder, tags extracted and not empty
FilesTakenBy(files, excludedFolderPatterns, includedPaths) ==
    {i \in 1..Len(files) :
        /\ i <= MAX_FILES_TO_PROCESS
        /\ \A inc \in includedPaths : files[i].path \in inc
        /\ \A ps \in excludedFolderPatterns : ~isPathInExcludedFolder(files[i].path, ps)
        /\ files[i].tags \notin {{}, {<<>>}}
        /\ \A t \in files[i].tags : Len(t) <= MAX_TAGS_PER_FILE}

\* the tags of a file that the assembler takes: not empty once normalized, not too deep
TagsTakenOf(file) ==
    {t \in UNION {{ts[k] : k \in 1..Len(ts)} : ts \in file.tags} :
        normalizeTagPathValue(t) # <<>> /\ Len(split(canonicalOf(t))) <= MAX_DEPTH}

\* the files among the taken ones that carry a tag normalizing to the path
FilesCarrying(files, taken, path) ==
    {files[i].path : i \in {j \in taken : \E t \in TagsTakenOf(files[j]) : normalizeTagPathValue(t) = path}}

\* every taken tag has its node, and every node holds exactly the files that
\* carry a tag normalizing to its path
AttachedExactly(h, files, excludedFolderPatterns, includedPaths) ==
    LET taken == FilesTakenBy(files, excludedFolderPatterns, includedPaths)
    IN  /\ \A i \in taken : \A t \in TagsTakenOf(files[i]) : builtId(normalizeTagPathValue(t)) \in DOMAIN h
        /\ \A n \in DOMAIN h : h[n].notesWithTag = FilesCarrying(files, taken, h[n].path)

(***************************************************************************)
(* C15  File-set attachment: in the tree built from a file index, the node *)
(* of every normalized tag path holds exactly the files (in no excluded    *)
(* folder, inside includedPaths when supplied, within the caps) that carry *)
(* a tag normalizing to that path, so that a file tagged only with a       *)
(* descendant tag never appears in the file set of an ancestor.            *)
(***************************************************************************)
C15_FileSetAttachment ==
    [][\A e \in ExcludedFolderInputs, inc \in IncludedPathsInputs :
          (last'.op = "buildTagTreeFromDatabase" /\ buildTagTreeFromDatabase(e, inc))
              => AttachedExactly(heap', allFiles, e, inc)]_vars

\* a build gave the node a the note tagged a and its child a/b the note tagged #A/b
C15_Witness ==
    /\ last.op = "buildTagTreeFromDatabase"
    /\ builtId(<<"a">>) \in DOMAIN heap
    /\ builtId(<<"a", "/", "b">>) \in DOMAIN heap
    /\ heap[builtId(<<"a">>)].notesWithTag = {NoteTwo}
    /\ heap[builtId(<<"a", "/", "b">>)].notesWithTag = {NoteOne}
    /\ heap[builtId(<<"a">>)].children = <<builtId(<<"a", "/", "b">>)>>

(***************************************************************************)
(* C16  Tree structural invariant: in every tree the assembler produces    *)
(* (tags with empty interior segments such as a//b included), every child  *)
(* of a parent has path = parent.path + '/' + normalize(name), and every   *)
(* node of the root map has path = normalize(name) and is keyed by it.     *)
(***************************************************************************)
C16_TreeStructuralInvariant ==
    /\ \A n \in BuiltIds : \A c \in IdsOf(heap[n].children) :
          heap[c].path = heap[n].path \o <<"/">> \o normalizeTagPathValue(heap[c].name)
    /\ \A r \in IdsOf(tagTree) :
          heap[r].path = normalizeTagPathValue(heap[r].name) /\ r = builtId(heap[r].path)

\* the nodes at most k children maps away from the nodes of a set, those included
RECURSIVE WithinLevels(_, _, _)
WithinLevels(h, nodes, k) ==
    IF k = 0 THEN nodes
    ELSE WithinLevels(h, nodes \cup UNION {IdsOf(h[n].children) : n \in nodes}, k - 1)

\* the subtree of the node is no deeper than the count descends
SubtreeWithinDepthCap(h, n) == SubtreeOf(h, n) \subseteq WithinLevels(h, {n}, MAX_DEPTH_getTotalNoteCount)

\* the files of the node and of all its descendants
FilesInSubtree(h, n) == UNION {h[d].notesWithTag : d \in SubtreeOf(h, n)}

(***************************************************************************)
(* C17  Count semantics: for every node whose subtree is within the depth  *)
(* cap, getTotalNoteCount returns the cardinality of the union (not the    *)
(* sum) of notesWithTag over the node and all of its descendants, so a     *)
(* file tagged with a tag and with a descendant of it is counted once.     *)
(***************************************************************************)
C17_CountIsCardinalityOfUnion ==
    [][\A n \in DOMAIN heap :
          (/\ last'.op = "getTotalNoteCount"
           /\ SubtreeWithinDepthCap(heap, n)
           /\ getTotalNoteCount(n))
              => last'.count = Cardinality(FilesInSubtree(heap, n))]_vars

\* the count of node a was returned as 1 while a and its child a/b both hold the same note
C17_Witness ==
    /\ last.op = "getTotalNoteCount"
    /\ builtId(<<"a">>) \in DOMAIN noteCountCache
    /\ builtId(<<"a", "/", "b">>) \in IdsOf(heap[builtId(<<"a">>)].children)
    /\ NoteOne \in heap[builtId(<<"a">>)].notesWithTag
    /\ NoteOne \in heap[builtId(<<"a", "/", "b">>)].notesWithTag
    /\ noteCountCache[builtId(<<"a">>)] = 1
    /\ last.count = 1

\* the value a call of getTotalNoteCount returns for the node in this state
CountReturnedFor(n) == IF n \in DOMAIN noteCountCache THEN noteCountCache[n] ELSE totalNoteCount(heap, n)

(***************************************************************************)
(* C18  Count monotonicity: for every parent/child pair of any tree the    *)
(* assembler can produce (tags as deep as the assembler takes, the count   *)
(* descending to its own depth cap), getTotalNoteCount(parent) is at least *)
(* getTotalNoteCount(child).                                               *)
(***************************************************************************)
C18_CountMonotonicity ==
    \A n \in BuiltIds : \A c \in IdsOf(heap[n].children) :
        CountReturnedFor(n) >= CountReturnedFor(c)

\* the matcher has at least one rule
HasRules(matcher) ==
    Len(matcher.prefixes) > 0 \/ Len(matcher.startsWithNames) > 0 \/ Len(matcher.endsWithNames) > 0

\* the nodes of a returned tree: those of its root map and all their descendants
NodesOfTree(h, tree) == ReachedFrom(h, IdsOf(tree), {})

\* the nodes of the input tree that match a rule of the matcher
MatchingNodes(h, tree, matcher) ==
    {n \in NodesOfTree(h, tree) : matchesHiddenTagPattern(h[n].path, h[n].name, matcher)}

\* no node of the returned tree matches a rule, and none is the copy of a
\* descendant, in the input tree, of a node that matches
NothingHiddenIsLeft(hAfter, returned, hBefore, input, matcher) ==
    \A f \in NodesOfTree(hAfter, returned) :
        /\ ~matchesHiddenTagPattern(hAfter[f].path, hAfter[f].name, matcher)
        /\ \A n \in MatchingNodes(hBefore, input, matcher) :
               builtId(hAfter[f].path) \notin DescendantsOf(hBefore, n)

(***************************************************************************)
(* C19  Hidden-tag exclusion: in the tree excludeFromTagTree returns for a *)
(* matcher with rules, no node matches a rule of the matcher and no node   *)
(* is a descendant, in the input tree, of a node that matches: descendants *)
(* of an excluded node are dropped even when they match no rule.           *)
(***************************************************************************)
C19_HiddenTagExclusion ==
    [][\A m \in MatcherInputs :
          (last'.op = "excludeFromTagTree" /\ HasRules(m) /\ excludeFromTagTree(m))
              => \A returned \in filteredTree' : NothingHiddenIsLeft(heap', returned, heap, tagTree, m)]_vars

\* a filter ran over a tree whose root a holds a note and has a child a/b that
\* holds one too: neither is in the returned tree, so a matched a rule (names
\* ending in a) and a/b, which matches none, went with it
C19_Witness ==
    /\ last.op = "excludeFromTagTree"
    /\ builtId(<<"a">>) \in IdsOf(tagTree)
    /\ heap[builtId(<<"a">>)].notesWithTag # {}
    /\ builtId(<<"a", "/", "b">>) \in IdsOf(heap[builtId(<<"a">>)].children)
    /\ heap[builtId(<<"a", "/", "b">>)].notesWithTag # {}
    /\ builtId(<<"b">>) \in IdsOf(tagTree)
    /\ filteredTree = {<<filteredId(<<"b">>)>>}

(***************************************************************************)
(* C20  Empty-ancestor pruning: every node of the tree excludeFromTagTree  *)
(* returns holds a note of its own or has at least one surviving child; a  *)
(* node without notes whose only child was removed is not in the result,   *)
(* and so on upward through chains of such ancestors.                      *)
(***************************************************************************)
C20_EmptyAncestorPruning ==
    \A returned \in filteredTree : \A f \in NodesOfTree(heap, returned) :
        heap[f].notesWithTag # {} \/ Len(heap[f].children) > 0

\* a filter ran over a tree whose root a holds no note and has the one child
\* a/b, which holds a note: the returned tree is a copy and has no node a
C20_Witness ==
    /\ last.op = "excludeFromTagTree"
    /\ builtId(<<"a">>) \in IdsOf(tagTree)
    /\ heap[builtId(<<"a">>)].notesWithTag = {}
    /\ heap[builtId(<<"a">>)].children = <<builtId(<<"a", "/", "b">>)>>
    /\ heap[builtId(<<"a", "/", "b">>)].notesWithTag # {}
    /\ filteredTree # {}
    /\ filteredTree # {tagTree}
    /\ \A returned \in filteredTree : filteredId(<<"a">>) \notin NodesOfTree(heap, returned)

\* what excludeFromTagTree returns for a tree of the heap: the returned root
\* map and the nodes it is made of (those of the heap on the fast path)
FilteredOnceMore(h, tree, matcher) ==
    IF ~HasRules(matcher) THEN [tree |-> tree, nodes |-> h]
    ELSE LET r == filterChildren(h, tree, matcher, {}, 0, [children |-> <<>>, made |-> <<>>])
         IN  [tree |-> r.children, nodes |-> r.made]

\* two trees are structurally equal: the same root keys and, node by node, the
\* same path, name, display path, children keys and note set
StructurallyEqual(h1, tree1, h2, tree2) ==
    /\ [k \in 1..Len(tree1) |-> h1[tree1[k]].path] = [k \in 1..Len(tree2) |-> h2[tree2[k]].path]
    /\ {h1[n].path : n \in NodesOfTree(h1, tree1)} = {h2[n].path : n \in NodesOfTree(h2, tree2)}
    /\ \A n1 \in NodesOfTree(h1, tree1) : \A n2 \in NodesOfTree(h2, tree2) :
          h1[n1].path = h2[n2].path =>
              /\ h1[n1].name = h2[n2].name
              /\ h1[n1].displayPath = h2[n2].displayPath
              /\ h1[n1].notesWithTag = h2[n2].notesWithTag
              /\ [k \in 1..Len(h1[n1].children) |-> h1[h1[n1].children[k]].path]
                    = [k \in 1..Len(h2[n2].children) |-> h2[h2[n2].children[k]].path]

(***************************************************************************)
(* C21  Hidden-filter idempotence: for every tree and matcher, filtering   *)
(* the tree that excludeFromTagTree returned once more with the same       *)
(* matcher gives a tree structurally equal to it (same node paths, names,  *)
(* children keys and note sets).                                           *)
(***************************************************************************)
C21_HiddenFilterIdempotence ==
    [][\A m \in MatcherInputs :
          (last'.op = "excludeFromTagTree" /\ excludeFromTagTree(m))
              => \A returned \in filteredTree' :
                    LET again == FilteredOnceMore(heap', returned, m)
                    IN  StructurallyEqual(again.nodes, again.tree, heap', returned)]_vars

\* a filter with rules returned a tree that lacks a node of the built tree and
\* still has a node with a child
C21_Witness ==
    /\ last.op = "excludeFromTagTree"
    /\ \E returned \in filteredTree :
          /\ \E n \in NodesOfTree(heap, tagTree) : filteredId(heap[n].path) \notin NodesOfTree(heap, returned)
          /\ \E f \in NodesOfTree(heap, returned) : f[1] = "filtered" /\ Len(heap[f].children) > 0

\* the input tree of the filter is as it was: its root map and every node
InputTreeUnchanged ==
    /\ tagTree' = tagTree
    /\ \A n \in NodesOfTree(heap, tagTree) : n \in DOMAIN heap' /\ heap'[n] = heap[n]

(***************************************************************************)
(* C22  excludeFromTagTree is pure: for every matcher it leaves the input  *)
(* tree (root map, children map and notesWithTag of every node) unchanged, *)
(* and for a matcher without prefix, starts-with and ends-with rules it    *)
(* returns the input tree itself, not a copy.                              *)
(***************************************************************************)
C22_FilterIsPure ==
    [][last'.op = "excludeFromTagTree" =>
          /\ InputTreeUnchanged
          /\ \A m \in MatcherInputs :
                (~HasRules(m) /\ excludeFromTagTree(m)) => filteredTree' = {tagTree}]_vars

\* a filter with rules returned a copy of a built node with fewer children
\* than the built node, which still has all of them
C22_Witness ==
    /\ last.op = "excludeFromTagTree"
    /\ \E n \in NodesOfTree(heap, tagTree) :
          /\ filteredId(heap[n].path) \in UNION {NodesOfTree(heap, returned) : returned \in filteredTree}
          /\ Len(heap[filteredId(heap[n].path)].children) < Len(heap[n].children)
          /\ \A c \in IdsOf(heap[n].children) : c \in BuiltIds

RECURSIVE TagsInOrder(_, _, _)
TagsInOrder(files, taken, i) ==
    IF i > Len(files) THEN <<>>
    ELSE (IF i \in taken
          THEN SelectSeq(CHOOSE ts \in files[i].tags : TRUE, LAMBDA t : t \in TagsTakenOf(files[i]))
          ELSE <<>>) \o TagsInOrder(files, taken, i + 1)

\* the first of the tags in order that normalizes to the path
FirstOccurrence(tags, path) ==
    tags[CHOOSE k \in 1..Len(tags) :
            /\ normalizeTagPathValue(tags[k]) = path
            /\ \A j \in 1..(k - 1) : normalizeTagPathValue(tags[j]) # path]

\* one node per normalized tag path, holding the files of all the tags that
\* normalize to it and displayed in the casing of the first of them
MergedUnderFirstSeenCasing(h, files, excludedFolderPatterns, includedPaths) ==
    LET taken == FilesTakenBy(files, excludedFolderPatterns, includedPaths)
        tags == TagsInOrder(files, taken, 1)
    IN  \A k \in 1..Len(tags) :
           LET path == normalizeTagPathValue(tags[k])
           IN  /\ builtId(path) \in DOMAIN h
               /\ \A n \in DOMAIN h : h[n].path = path => n = builtId(path)
               /\ h[builtId(path)].notesWithTag = FilesCarrying(files, taken, path)
               /\ h[builtId(path)].displayPath = canonicalOf(FirstOccurrence(tags, path))

(***************************************************************************)
(* C24  Case-insensitive merge with first-seen casing: tags of different   *)
(* files that normalize to the same path are merged into a single node     *)
(* whose notesWithTag is the union of their files, and for every path that *)
(* occurs as a full tag the displayPath of its node is the casing of the   *)
(* first occurrence of that tag in file iteration order, whatever casing   *)
(* later tags or descendant tags use for the same segments.                *)
(***************************************************************************)
C24_MergedUnderFirstSeenCasing ==
    [][\A e \in ExcludedFolderInputs, inc \in IncludedPathsInputs :
          (last'.op = "buildTagTreeFromDatabase" /\ buildTagTreeFromDatabase(e, inc))
              => MergedUnderFirstSeenCasing(heap', allFiles, e, inc)]_vars

\* a build over #A/b in the first note and a/b in the second: one node a/b
\* holding both notes and displayed as A/b
C24_Witness ==
    /\ last.op = "buildTagTreeFromDatabase"
    /\ builtId(<<"a", "/", "b">>) \in DOMAIN heap
    /\ heap[builtId(<<"a", "/", "b">>)].notesWithTag = {NoteOne, NoteTwo}
    /\ heap[builtId(<<"a", "/", "b">>)].displayPath = <<"A", "/", "b">>
    /\ allFiles[2].tags = {<<(<<"a", "/", "b">>)>>}

\* the files a build with these arguments processes: within the file cap,
\* inside includedPaths when supplied, in no excluded folder
FilesProcessedBy(files, excludedFolderPatterns, includedPaths) ==
    {i \in 1..Len(files) :
        /\ i <= MAX_FILES_TO_PROCESS
        /\ \A inc \in includedPaths : files[i].path \in inc
        /\ \A ps \in excludedFolderPatterns : ~isPathInExcludedFolder(files[i].path, ps)}

\* the processed files that are notes with a tag list that is empty, not null
UntaggedNotes(files, excludedFolderPatterns, includedPaths) ==
    {i \in FilesProcessedBy(files, excludedFolderPatterns, includedPaths) :
        files[i].tags = {<<>>} /\ endsWith(files[i].path, <<".", "m", "d">>)}

(***************************************************************************)
(* C25  Untagged count: the untagged value the build returns is the number *)
(* of processed files (in no excluded folder, inside includedPaths when    *)
(* supplied) that have a non-null empty tag list and are .md files; a file *)
(* with a null tag list, a file that is no note and a file with a tag are  *)
(* never counted.                                                          *)
(***************************************************************************)
C25_UntaggedCount ==
    [][\A e \in ExcludedFolderInputs, inc \in IncludedPathsInputs :
          (last'.op = "buildTagTreeFromDatabase" /\ buildTagTreeFromDatabase(e, inc))
              => /\ untagged' = Cardinality(UntaggedNotes(allFiles, e, inc))
                 /\ last'.count = untagged']_vars

\* a build counted one untagged note out of a note with null tags, a note with
\* an empty tag list, an untagged note of an excluded folder and an untagged
\* file that is no note
C25_Witness ==
    /\ last.op = "buildTagTreeFromDatabase"
    /\ allFiles[1].tags = {}
    /\ allFiles[2].tags = {<<>>}
    /\ untagged = 1
    /\ hiddenRootTags # <<>>

\* the files of the index that lie in an excluded folder
FilesInExcludedFolders(files, excludedFolderPatterns) ==
    {i \in 1..Len(files) : \E ps \in excludedFolderPatterns : isPathInExcludedFolder(files[i].path, ps)}

\* the normalized root segments of the tags of a file
RootSegmentsOf(file) ==
    UNION {{normalizeTagPathValue(Head(split(canonicalOf(ts[k])))) : k \in 1..Len(ts)} : ts \in file.tags}

\* no hidden root is a key of the visible tree, every hidden root is the root
\* segment of a tag of a file in an excluded folder, and no such file is among
\* the notes of a visible node or in the untagged count
HiddenRootsApart(h, tree, hidden, count, files, excludedFolderPatterns) ==
    LET excluded == FilesInExcludedFolders(files, excludedFolderPatterns)
    IN  /\ \A k \in 1..Len(hidden) : \A r \in IdsOf(tree) : h[r].path # hidden[k].path
        /\ \A k \in 1..Len(hidden) : \E i \in excluded : hidden[k].path \in RootSegmentsOf(files[i])
        /\ \A n \in DOMAIN h : \A i \in excluded : files[i].path \notin h[n].notesWithTag
        /\ count <= Cardinality({i \in 1..Len(files) : i \notin excluded /\ files[i].tags = {<<>>}})

(***************************************************************************)
(* C26  Hidden-root registry: in the result of every build no key of       *)
(* hiddenRootTags is a key of the visible tag tree, every key of           *)
(* hiddenRootTags is the normalized root segment of a tag carried by some  *)
(* file in an excluded folder, and files in excluded folders contribute to *)
(* no notesWithTag of the visible tree and not to the untagged count.      *)
(***************************************************************************)
C26_HiddenRootRegistry ==
    [][\A e \in ExcludedFolderInputs, inc \in IncludedPathsInputs :
          (last'.op = "buildTagTreeFromDatabase" /\ buildTagTreeFromDatabase(e, inc))
              => HiddenRootsApart(heap', tagTree', hiddenRootTags', untagged', allFiles, e)]_vars

\* a build with the folder x excluded found the tag b in x and also in a note
\* of the root: b is a visible root without the note of x and no hidden root
C26_Witness ==
    /\ last.op = "buildTagTreeFromDatabase"
    /\ builtId(<<"b">>) \in IdsOf(tagTree)
    /\ heap[builtId(<<"b">>)].notesWithTag = {NoteTwo}
    /\ hiddenRootTags = <<>>

\* no shortcut list of these collections holds two entries with one key
KeysUniqueIn(cs) ==
    \A c \in 1..Len(cs) :
        \A i, j \in 1..Len(cs[c].shortcuts) :
            i # j => getShortcutKey(cs[c].shortcuts[i]) # getShortcutKey(cs[c].shortcuts[j])

\* this step runs the oldest pending mutator, which is of this kind
Applies(kind) ==
    /\ settingsWrites # <<>>
    /\ Head(settingsWrites).kind = kind
    /\ settingsWrites' = Tail(settingsWrites)

(***************************************************************************)
(* C27: per-collection key uniqueness under interleaving.  When add        *)
(* operations are started before the settings writes of earlier ones have  *)
(* committed (their duplicate checks read the same rendered snapshot, the  *)
(* writes are applied one after the other), the write of an add applied to *)
(* collections without a repeated key leaves them without a repeated key:  *)
(* the target ends with at most one entry with the added key.              *)
(***************************************************************************)
C27_KeysUniqueUnderInterleaving ==
    [][(Applies("insertShortcut") /\ KeysUniqueIn(shortcutCollections))
          => KeysUniqueIn(shortcutCollections')]_vars


\* the entries the settings hold, each as its collection id and its key
StoredKeys(cs) ==
    UNION {{<<cs[c].id, getShortcutKey(cs[c].shortcuts[i])>> : i \in 1..Len(cs[c].shortcuts)} : c \in 1..Len(cs)}

\* the list a pending reorder took from its snapshot names nothing twice, so
\* that it was a permutation of the snapshot it was validated against
TakenFromSnapshotInOrder(w) ==
    /\ \A i, j \in 1..Len(w.entries) : i # j => getShortcutKey(w.entries[i]) # getShortcutKey(w.entries[j])
    /\ \A i, j \in 1..Len(w.ordered) : i # j => w.ordered[i].id # w.ordered[j].id

(***************************************************************************)
(* C28: no lost update.  When an insertion or a removal is committed after *)
(* reorderShortcuts or reorderCollections validated its list against the   *)
(* rendered snapshot and before the reorder's own settings write, the      *)
(* reorder's write keeps the inserted entry stored and the removed entry   *)
(* absent: the write of a reorder stores, collection by collection, the    *)
(* keys that were stored before it, never the content of a stale snapshot. *)
(***************************************************************************)
C28_NoLostUpdate ==
    [][((Applies("reorderShortcuts") \/ Applies("reorderCollections"))
            /\ TakenFromSnapshotInOrder(Head(settingsWrites)))
          => StoredKeys(shortcutCollections') = StoredKeys(shortcutCollections)]_vars


\* the keys of a shortcut list, in the order of the list
KeysInOrder(shortcuts) == [i \in 1..Len(shortcuts) |-> getShortcutKey(shortcuts[i])]

\* the two lists hold the same values, each as often as the other
IsPermutationOf(one, other) ==
    /\ Len(one) = Len(other)
    /\ \A x \in Range(one) \cup Range(other) :
           Cardinality({i \in 1..Len(one) : one[i] = x}) = Cardinality({i \in 1..Len(other) : other[i] = x})

(***************************************************************************)
(* C29: reorderShortcuts(orderedKeys) returns success only when the active *)
(* id names a stored collection and orderedKeys is a permutation of the    *)
(* keys of that collection; the stored list of that collection then holds  *)
(* the entries it held before, in the requested order.  A list of the      *)
(* right length that repeats one key and omits another is rejected.        *)
(***************************************************************************)
C29_ReorderAcceptsPermutationsOnly ==
    [][\A ks \in OrderedKeysInputs :
          (last'.op = "reorderShortcuts" /\ reorderShortcuts(ks) /\ last'.ok)
          => LET collectionIndex == findIndex(shortcutCollections, activeShortcutCollection)
             IN  /\ collectionIndex # 0
                 /\ IsPermutationOf(ks, KeysInOrder(shortcutCollections[collectionIndex].shortcuts))
                 /\ KeysInOrder(shortcutCollections'[collectionIndex].shortcuts) = ks
                 /\ IsPermutationOf(shortcutCollections'[collectionIndex].shortcuts,
                                    shortcutCollections[collectionIndex].shortcuts)]_vars


\* the collection ids are pairwise distinct
IdsDistinct(cs) == \A i, j \in 1..Len(cs) : i # j => cs[i].id # cs[j].id

(***************************************************************************)
(* C30: reorderCollections is all-or-nothing.  It returns failure with the *)
(* collection list unchanged, or success with the list being a permutation *)
(* of the previous list: collection ids that were pairwise distinct stay   *)
(* so and no collection is lost or duplicated, also when the id list       *)
(* repeats one id and omits another.                                       *)
(***************************************************************************)
C30_ReorderCollectionsAllOrNothing ==
    [][\A ids \in OrderedIdsInputs :
          (last'.op = "reorderCollections" /\ reorderCollections(ids))
          => IF last'.ok
             THEN /\ IsPermutationOf(shortcutCollections', shortcutCollections)
                  /\ IdsDistinct(shortcutCollections) => IdsDistinct(shortcutCollections')
             ELSE shortcutCollections' = shortcutCollections]_vars


\* the paths at which the vault differs after the step
PathsNotified == {p \in VaultPaths : vault'[p] # vault[p]}

\* a folder or note shortcut of the shown list refers to one of the paths
ReferencedByShownList(paths) ==
    \E i \in 1..Len(ShownList) :
        /\ isFolderShortcut(ShownList[i]) \/ isNoteShortcut(ShownList[i])
        /\ ShownList[i].path \in paths

(***************************************************************************)
(* C31: hydration freshness.  A create, delete or rename notification      *)
(* whose path (or old path, for a rename) is referenced by a folder or     *)
(* note shortcut of the active collection increments vaultChangeVersion by *)
(* exactly one, a notification for an unreferenced path leaves it          *)
(* unchanged, the counter never decreases, and once the notification is    *)
(* handled the isMissing flag of every folder and note entry of the active *)
(* collection agrees with the vault.                                       *)
(***************************************************************************)
C31_HydrationFreshness ==
    [][/\ vaultChangeVersion' >= vaultChangeVersion
       /\ last'.op \in {"handleCreate", "handleDelete", "handleRename"}
          => /\ vaultChangeVersion' = IF ReferencedByShownList(PathsNotified) THEN vaultChangeVersion + 1
                                      ELSE vaultChangeVersion
             /\ \A i \in 1..Len(hydratedShortcuts') :
                   LET h == hydratedShortcuts'[i]
                   IN  /\ isFolderShortcut(h.shortcut)
                          => (h.isMissing <=> ~(\/ h.shortcut.path = RootPath
                                                \/ h.shortcut.path \in {p \in VaultPaths : vault'[p] = "folder"}))
                       /\ isNoteShortcut(h.shortcut)
                          => (h.isMissing <=> h.shortcut.path \notin {p \in VaultPaths : vault'[p] = "file"})]_vars

\* two notifications for referenced paths were counted, the second one a
\* delete that left a note entry of the shown list missing
C31_Witness ==
    /\ last.op = "handleDelete"
    /\ vaultChangeVersion = 2
    /\ \E i \in 1..Len(hydratedShortcuts) :
          isNoteShortcut(hydratedShortcuts[i].shortcut) /\ hydratedShortcuts[i].isMissing


\* nothing of the pass is left to do: the effect ran for the rendered
\* collections, no rewrite is pending and no stored tag path needs a rewrite
Quiescent ==
    /\ settingsWrites = <<>>
    /\ effectRanFor = {shortcutCollections}
    /\ \A c \in 1..Len(shortcutCollections) : \A i \in 1..Len(shortcutCollections[c].shortcuts) :
          LET entry == shortcutCollections[c].shortcuts[i]
          IN  isTagShortcut(entry) /\ normalizeTagPath(entry.tagPath) # {}
                  => normalizeTagPath(entry.tagPath) = {entry.tagPath}

\* the step rewrote tag paths only: every list keeps its length and order,
\* an entry that is not a tag is kept, a tag keeps all but its path, which
\* becomes its normalization when that is not empty
RewroteTagPathsOnly ==
    /\ Len(shortcutCollections') = Len(shortcutCollections)
    /\ \A c \in 1..Len(shortcutCollections) :
          /\ shortcutCollections'[c].id = shortcutCollections[c].id
          /\ Len(shortcutCollections'[c].shortcuts) = Len(shortcutCollections[c].shortcuts)
          /\ \A i \in 1..Len(shortcutCollections[c].shortcuts) :
                LET before == shortcutCollections[c].shortcuts[i]
                    after == shortcutCollections'[c].shortcuts[i]
                IN  IF isTagShortcut(before) /\ normalizeTagPath(before.tagPath) # {}
                    THEN /\ after = [before EXCEPT !.tagPath = after.tagPath]
                         /\ after.tagPath = before.tagPath \/ {after.tagPath} = normalizeTagPath(before.tagPath)
                    ELSE after = before

\* the cache holds, for every collection, the fingerprint of its stored list,
\* so that the effect finds no collection to check
CacheIsCurrent ==
    \A c \in 1..Len(shortcutCollections) :
        [id |-> shortcutCollections[c].id,
         fingerprint |-> buildShortcutsFingerprint(shortcutCollections[c].shortcuts)]
            \in normalizationFingerprintsRef

C33_PassKeepsKeysUnique ==
    [][(last'.op = "normalizationWrite" /\ KeysUniqueIn(shortcutCollections))
          => KeysUniqueIn(shortcutCollections')]_vars


(***************************************************************************)
(* C34: memo coherence across rebuilds.  Under every interleaving of       *)
(* buildTagTreeFromDatabase, excludeFromTagTree and getTotalNoteCount,     *)
(* every memoized count is the count a computation without the cache       *)
(* gives for that node of the latest built or filtered tree, and that is   *)
(* what getTotalNoteCount returns; every build empties the cache; an entry *)
(* that outlives a build or a filter belongs to a node that the operation  *)
(* left as it was, so no count of an earlier tree is given for a node of   *)
(* a later one.                                                            *)
(***************************************************************************)
MemoIsCoherent ==
    \A n \in DOMAIN noteCountCache :
        n \in DOMAIN heap /\ noteCountCache[n] = totalNoteCount(heap, n)

C34_MemoCoherenceAcrossRebuilds ==
    /\ []MemoIsCoherent
    /\ [][last'.op = "buildTagTreeFromDatabase" => noteCountCache' = <<>>]_vars
    /\ [][last'.op = "getTotalNoteCount"
            => \E n \in DOMAIN heap :
                  /\ n \in DOMAIN noteCountCache'
                  /\ last'.count = totalNoteCount(heap', n)
                  /\ \A m \in DOMAIN noteCountCache' :
                        m # n => m \in DOMAIN noteCountCache /\ noteCountCache'[m] = noteCountCache[m]]_vars
    /\ [][last'.op \in {"buildTagTreeFromDatabase", "excludeFromTagTree"}
            => \A n \in DOMAIN noteCountCache' :
                  /\ n \in DOMAIN noteCountCache /\ noteCountCache'[n] = noteCountCache[n]
                  /\ n \in DOMAIN heap /\ heap'[n] = heap[n]]_vars

\* a count was taken for a node of the filtered tree whose copy lost a child:
\* it is smaller than the count of the built node at the same path
C34_Witness ==
    /\ last.op = "getTotalNoteCount"
    /\ filteredTree # {}
    /\ \E n \in DOMAIN noteCountCache :
          /\ n[1] = "filtered"
          /\ builtId(n[2]) \in DOMAIN heap
          /\ noteCountCache[n] = last.count
          /\ noteCountCache[n] < totalNoteCount(heap, builtId(n[2]))


(***************************************************************************)
(* C35: termination on malformed graphs.  On every finite node graph, also *)
(* one in which a node is reachable from itself through children or which  *)
(* is deeper than the cap, every call of getTotalNoteCount,                *)
(* excludeFromTagTree and collectAllTagPaths returns; a cyclic branch or a *)
(* branch beyond the cap is skipped and the rest of the graph is walked:   *)
(* the count is that of the files at most the cap of levels below the      *)
(* node, the paths are those of the nodes fewer levels below the node than *)
(* the size cap, the filtered roots are those the filter gives with the    *)
(* repeated and the too deep calls answered by null.                       *)
(***************************************************************************)
WalkUnderWay == callStack # <<>>
WalkReturned == callStack = <<>> /\ callResult.op # "none" /\ last.ok

CalledOn == CHOOSE n \in callResult.node : TRUE

ReturnedWhatTheRestGives ==
    /\ callResult.op = "getTotalNoteCount"
          => callResult.count =
                Cardinality(UNION {heap[d].notesWithTag :
                                      d \in WithinLevels(heap, {CalledOn}, MAX_DEPTH_getTotalNoteCount)})
    /\ callResult.op = "collectAllTagPaths"
          => callResult.paths =
                {heap[d].path : d \in WithinLevels(heap, {CalledOn}, MAX_VISITED_collectAllTagPaths - 1)}
    /\ callResult.op = "excludeFromTagTree"
          => LET matcher == CHOOSE m \in callResult.matcher : TRUE
                 r == filterChildren(heap, tagTree, matcher, {}, 0, [children |-> <<>>, made |-> <<>>])
             IN  IF HasRules(matcher)
                 THEN /\ callResult.roots = [k \in 1..Len(r.children) |-> r.children[k][2]]
                      /\ {c.path : c \in callResult.kept} = {id[2] : id \in DOMAIN r.made}
                 ELSE callResult.roots = [k \in 1..Len(tagTree) |-> heap[tagTree[k]].path]

C35_TerminationOnMalformedGraphs ==
    /\ WalkUnderWay ~> WalkReturned
    /\ [](WalkReturned => ReturnedWhatTheRestGives)

\* a count returned 2 for node a that lies below itself: the note of a/b was
\* counted once and the note of a/c, which comes after the cycle, was counted
C35_Witness ==
    /\ WalkReturned
    /\ callResult.op = "getTotalNoteCount"
    /\ callResult.node = {builtId(<<"a">>)}
    /\ builtId(<<"a">>) \in DescendantsOf(heap, builtId(<<"a">>))
    /\ builtId(<<"a", "/", "b">>) \in DOMAIN heap
    /\ callResult.files = {NoteOne, NoteTwo}
    /\ callResult.count = 2


(***************************************************************************)
(* C36: the assembler always produces a forest.  For every input tag set,  *)
(* tags with empty segments such as a//b included, no built node is        *)
(* reachable from itself through children maps, every built node has at    *)
(* most one parent, and the root map holds exactly the nodes that were     *)
(* built from a prefix of one segment.                                     *)
(***************************************************************************)
ParentsOf(h, n) == {p \in DOMAIN h : p[1] = n[1] /\ n \in IdsOf(h[p].children)}

C36_AssemblerProducesForest ==
    /\ \A n \in BuiltIds : n \notin DescendantsOf(heap, n)
    /\ \A n \in BuiltIds : Cardinality(ParentsOf(heap, n)) <= 1
    /\ IdsOf(tagTree) = {n \in BuiltIds : \A i \in 1..Len(heap[n].displayPath) : heap[n].displayPath[i] # "/"}


(***************************************************************************)
(* C37: the active collection id always names an existing collection.  In  *)
(* every state reached through setActiveCollection, addCollection,         *)
(* deleteCollection and reorderCollections in which a collection is        *)
(* stored, activeCollectionId is the id of a stored collection, so that    *)
(* the list shown and validated against is the list written to.            *)
(***************************************************************************)
C37_ActiveIdNamesStoredCollection ==
    Len(shortcutCollections) > 0
        => \E i \in 1..Len(shortcutCollections) : shortcutCollections[i].id = activeCollectionId


(***************************************************************************)
(* C38: filter completeness.  Every node of the input tree within the      *)
(* depth cap that matches no rule, has no matching ancestor and holds      *)
(* notes of its own is in the tree excludeFromTagTree returns, at the same *)
(* place (a root stays a root, a child stays a child of the copy of its    *)
(* parent) with the same path, name, displayPath and notesWithTag, and so  *)
(* are all its ancestors.                                                  *)
(***************************************************************************)
\* the nodes that the filter reaches before its depth cap
WithinFilterCap(h, tree) == WithinLevels(h, IdsOf(tree), MAX_DEPTH_excludeFromTagTree - 1)

AncestorsOf(h, tree, n) == {p \in NodesOfTree(h, tree) : n \in DescendantsOf(h, p)}

\* the node that stands for n in the returned tree: n itself when the
\* matcher has no rule, the copy made for its path otherwise
InReturned(h, n, matcher) == IF HasRules(matcher) THEN filteredId(h[n].path) ELSE n

KeptWithAncestors(hAfter, returned, hBefore, input, matcher, n) ==
    LET kept == {n} \cup AncestorsOf(hBefore, input, n)
    IN  /\ \A k \in kept :
              /\ InReturned(hBefore, k, matcher) \in NodesOfTree(hAfter, returned)
              /\ k \in IdsOf(input) => InReturned(hBefore, k, matcher) \in IdsOf(returned)
              /\ \A p \in kept :
                    k \in IdsOf(hBefore[p].children) /\ k # p
                        => InReturned(hBefore, k, matcher)
                              \in IdsOf(hAfter[InReturned(hBefore, p, matcher)].children)
        /\ LET copy == hAfter[InReturned(hBefore, n, matcher)]
           IN  /\ copy.path = hBefore[n].path
               /\ copy.name = hBefore[n].name
               /\ copy.displayPath = hBefore[n].displayPath
               /\ copy.notesWithTag = hBefore[n].notesWithTag

OwedToResult(h, tree, matcher) ==
    {n \in WithinFilterCap(h, tree) :
        /\ h[n].notesWithTag # {}
        /\ ~matchesHiddenTagPattern(h[n].path, h[n].name, matcher)
        /\ \A p \in AncestorsOf(h, tree, n) : ~matchesHiddenTagPattern(h[p].path, h[p].name, matcher)}

C38_FilterCompleteness ==
    [][\A m \in MatcherInputs :
          (last'.op = "excludeFromTagTree" /\ excludeFromTagTree(m))
              => \A returned \in filteredTree' : \A n \in OwedToResult(heap, tagTree, m) :
                    KeptWithAncestors(heap', returned, heap, tagTree, m, n)]_vars

\* the filter that hides b ran over a tree in which a holds no note and its
\* child a/b holds one: the returned tree has a copy of a with a copy of a/b
C38_Witness ==
    /\ last.op = "excludeFromTagTree"
    /\ builtId(<<"a">>) \in IdsOf(tagTree)
    /\ builtId(<<"b">>) \in IdsOf(tagTree)
    /\ heap[builtId(<<"a">>)].notesWithTag = {}
    /\ heap[builtId(<<"a">>)].children = <<builtId(<<"a", "/", "b">>)>>
    /\ heap[builtId(<<"a", "/", "b">>)].notesWithTag = {NoteOne}
    /\ filteredTree = {<<filteredId(<<"a">>)>>}
    /\ heap[filteredId(<<"a">>)].children = <<filteredId(<<"a", "/", "b">>)>>
    /\ heap[filteredId(<<"a", "/", "b">>)].notesWithTag = {NoteOne}


(***************************************************************************)
(* C39: display-path consistency.  In every assembled tree the displayPath *)
(* of a child is the displayPath of its parent, '/', and the name of the   *)
(* child, and the displayPath of a root is its name, also when tags that   *)
(* share an ancestor spell its segments in different casing.               *)
(***************************************************************************)
C39_DisplayPathConsistency ==
    /\ \A n \in BuiltIds : \A c \in IdsOf(heap[n].children) :
          heap[c].displayPath = heap[n].displayPath \o <<"/">> \o heap[c].name
    /\ \A r \in IdsOf(tagTree) : heap[r].displayPath = heap[r].name


(***************************************************************************)
(* C40: findTagNode lookup.  For every tree the assembler produces and     *)
(* every node n of it, findTagNode(tree, n.displayPath) and                *)
(* findTagNode(tree, '#' + n.displayPath) return n; and findTagNode        *)
(* returns, with null exactly when no node of the tree has the path that   *)
(* is the argument without its '#' in lower case.                          *)
(***************************************************************************)
NodesWithPath(h, tree, path) == {n \in NodesOfTree(h, tree) : h[n].path = path}

C40_FindTagNodeLookup ==
    [][/\ \A n \in NodesOfTree(heap, tagTree) : \A p \in {heap[n].displayPath, <<"#">> \o heap[n].displayPath} :
             (last'.op = "findTagNode" /\ findTagNode(p)) => (last'.ok /\ last'.changed = {n})
       /\ \A p \in TagPathInputs :
             (last'.op = "findTagNode" /\ findTagNode(p))
                 => /\ last'.ok
                    /\ last'.changed = {} <=> NodesWithPath(heap, tagTree, lowerPathOf(p)) = {}]_vars

=============================================================================
